---------------------------- MODULE Spec2Model ----------------------------
(***************************************************************************)
(* A model of the decoding layer of the ROTT isometric mapper: the RTL/RTC *)
(* level container (rtl.py: RTLFile, Level), its run-length word codec     *)
(* (Level.decode_block) and the post-processing pass of a decoded level    *)
(* (Level.interpret_info, Level.move); and of the WAD asset archive        *)
(* (wad.py: WadFile, Lump), which is Python 2 code: struct.unpack gives    *)
(* names as byte strings and / on integers is floor division.              *)
(*                                                                         *)
(* A Python list of words is modelled as a layer record                    *)
(*    [len |-> n, cells |-> f]                                             *)
(* where n is the length of the list and f maps exactly the indices whose  *)
(* entry is not 0 to that entry; every other index below n holds 0.        *)
(***************************************************************************)
EXTENDS Integers, Sequences, FiniteSets, TLC

VARIABLES
    \* ---- RTLFile.__init__ (rtl.py:47-66)
    filedata,    \* the bytes of the RTL/RTC file
    fpos,        \* the cursor of the open file handle
    noprocess,   \* the noprocess argument
    slot,        \* the loop variable i of range(100)
    levels,      \* RTLFile.levels
    hdrpos,      \* the cursor position at which each slot header read began
    rpc,         \* position of the loader: "slots", "done", or the exception raised
    \* ---- Level.__init__ post-processing of one level (rtl.py:128-150)
    walls, sprites, info,   \* the three layers of the level
    floor, height, song,    \* header-carried fields
    switchdata, switchnum,  \* interpret_info's switch/timer table and counter
    index,                  \* the last index the running loop has dealt with
    pc,                     \* "header", "timers", "scan", "done", or the exception raised
    \* ---- Level.decode_block and Level.move on their own
    dec,         \* a decode_block call: its arguments and its result
    mv,          \* a move call: its arguments and its result
    \* ---- WadFile.__init__ (wad.py:53-91); the file and its cursor are
    \*      filedata and fpos above
    wadid,       \* WadFile.wadid
    numlumps,    \* WadFile.numlumps
    lumpnum,     \* the loop variable of range(self.numlumps)
    block,       \* the local variable block: the current section
    data,        \* WadFile.data: section -> list of lumps
    db,          \* WadFile.db: section -> name -> lump
    palette,     \* WadFile.palette
    wpc,         \* "open", "lumps", "palette", "done", or the exception raised
    \* ---- Lump.load_patch on its own
    lump         \* a load_patch call: the lump before and after it

vars == <<filedata, fpos, noprocess, slot, levels, hdrpos, rpc,
          walls, sprites, info, floor, height, song, switchdata, switchnum,
          index, pc, dec, mv,
          wadid, numlumps, lumpnum, block, data, db, palette, wpc, lump>>

rtlvars == <<filedata, fpos, slot, levels, hdrpos, rpc>>
lvlvars == <<walls, sprites, info, floor, height, song, switchdata, switchnum,
             index, pc>>
wadvars == <<wadid, numlumps, lumpnum, block, data, db, palette, wpc, lump>>

-----------------------------------------------------------------------------
(* Directional constants, rtl.py:29-30 *)
RIGHT == 0
UP == 1
LEFT == 2
DOWN == 3
NODIR == -1

(* The map is 128 cells wide and 128 cells high, rtl.py:338-344 *)
MapWidth == 128
MapCells == MapWidth * MapWidth

-----------------------------------------------------------------------------
(* Layers: Python lists of words *)

EmptyCells == [i \in {} |-> 0]

Get(L, i) == IF i \in DOMAIN L.cells THEN L.cells[i] ELSE 0

InList(L, i) == i >= 0 /\ i < L.len

Put(L, i, v) ==
    [len |-> L.len,
     cells |-> [k \in (IF v = 0 THEN DOMAIN L.cells \ {i} ELSE DOMAIN L.cells \cup {i})
                   |-> IF k = i THEN v ELSE L.cells[k]]]

(* A variant that zeroes the positions 1..6 only *)
ZeroFirst7_from1(L) ==
    [len |-> IF L.len < 7 THEN 7 ELSE L.len,
     cells |-> [k \in {c \in DOMAIN L.cells : c >= 7 \/ c = 0} |-> L.cells[k]]]

(* list[:7] = [0]*7 : the first seven entries are replaced by seven zeros,  *)
(* which also lengthens a list shorter than seven entries to seven.        *)
ZeroFirst7(L) ==
    [len |-> IF L.len < 7 THEN 7 ELSE L.len,
     cells |-> [k \in {c \in DOMAIN L.cells : c >= 7} |-> L.cells[k]]]

(* A list given as a sequence of words, as a layer *)
ToLayer(s) ==
    [len |-> Len(s),
     cells |-> [k \in {j \in 0..(Len(s) - 1) : s[j + 1] # 0} |-> s[k + 1]]]

-----------------------------------------------------------------------------
(* move with the row test of RIGHT off by one *)
move_wraps(idx, direction, distance) ==
    LET result ==
            IF direction = UP THEN idx - MapWidth * distance
            ELSE IF direction = DOWN THEN idx + MapWidth * distance
            ELSE IF direction = LEFT
                THEN (IF idx % MapWidth >= distance THEN idx - distance ELSE 0)
            ELSE IF direction = RIGHT
                THEN (IF idx % MapWidth <= MapWidth - distance THEN idx + distance ELSE 0)
            ELSE 0
    IN  IF result < 0 \/ result >= MapWidth * MapWidth THEN 0 ELSE result

(* Level.move, rtl.py:319-347.  A direction that is none of the four       *)
(* constants leaves result at 0.                                           *)
move(idx, direction, distance) ==
    LET result ==
            IF direction = UP THEN idx - MapWidth * distance
            ELSE IF direction = DOWN THEN idx + MapWidth * distance
            ELSE IF direction = LEFT
                THEN (IF idx % MapWidth >= distance THEN idx - distance ELSE 0)
            ELSE IF direction = RIGHT
                THEN (IF idx % MapWidth < MapWidth - distance THEN idx + distance ELSE 0)
            ELSE 0
    IN  IF result < 0 \/ result >= MapWidth * MapWidth THEN 0 ELSE result

(* Level.switchindex, rtl.py:152-157 *)
switchindex(switchinfo) == (switchinfo \div 256) + (switchinfo % 256) * 128

(* Level.timeval, rtl.py:159-164 *)
timeval(infoval) == <<infoval \div 256, infoval % 256>>

-----------------------------------------------------------------------------
(* Text conversions used for the entries of switchdata *)

Digit == <<"0", "1", "2", "3", "4", "5", "6", "7", "8", "9">>

(* str(n) for n >= 0 *)
RECURSIVE str(_)
str(n) == IF n < 10 THEN Digit[n + 1] ELSE str(n \div 10) \o Digit[(n % 10) + 1]

(* "{:02}".format(n) for n >= 0: at least two digits, padded with zeros *)
Fmt02(n) == IF n < 10 THEN "0" \o str(n) ELSE str(n)

(* chr(c) for the codes of the upper-case letters, 0x41..0x5A *)
UpperCase == <<"A", "B", "C", "D", "E", "F", "G", "H", "I", "J", "K", "L", "M",
               "N", "O", "P", "Q", "R", "S", "T", "U", "V", "W", "X", "Y", "Z">>

chr(c) == UpperCase[c - 64]

(* The label of the switchnum-th new switch, rtl.py:233-236 *)
SwitchLabel(n) == IF n < 26 THEN chr(n + 65) ELSE str(n - 25)

(* The text recorded for a timer, rtl.py:219-220 *)
TimerText(starttime, endtime) ==
    Fmt02(starttime[1]) \o ":" \o Fmt02(starttime[2]) \o "\n  to\n"
        \o Fmt02(endtime[1]) \o ":" \o Fmt02(endtime[2])

-----------------------------------------------------------------------------
(* The state of a level while Level.__init__ post-processes it, as a       *)
(* record: the layers, the table and counter of interpret_info, the height *)
(* and the exception raised, if any ("" when none; "hang" for a loop that  *)
(* does not end).                                                          *)

Raise(st, e) == [st EXCEPT !.err = e]

SetKey(d, k, v) == [x \in DOMAIN d \cup {k} |-> IF x = k THEN v ELSE d[x]]

(* Level.nextwall, nextinfo, nextsprite, rtl.py:349-388 *)
nextwall(st, idx, direction, distance) == Get(st.walls, move(idx, direction, distance))
nextinfo(st, idx, direction, distance) == Get(st.info, move(idx, direction, distance))
nextsprite(st, idx, direction, distance) == Get(st.sprites, move(idx, direction, distance))

-----------------------------------------------------------------------------
(* Timed objects: one iteration of the loop of rtl.py:200-220 *)

(* A variant that looks right before left *)
TimerDirs_clockwise == <<UP, RIGHT, DOWN, LEFT>>

TimerDirs == <<UP, LEFT, DOWN, RIGHT>>

(* The search for the end time, rtl.py:212-217: the first direction, from  *)
(* the k-th on, in which the info value next to the timed object is > 0.   *)
RECURSIVE FindEnd(_, _, _)
FindEnd(st, timedobjindex, k) ==
    IF k > Len(TimerDirs) THEN [kind |-> "none"]
    ELSE LET n == move(timedobjindex, TimerDirs[k], 1)
         IN  IF ~InList(st.info, n) THEN [kind |-> "IndexError"]
             ELSE IF nextinfo(st, timedobjindex, TimerDirs[k], 1) > 0
                 THEN [kind |-> "found", pos |-> n]
             ELSE FindEnd(st, timedobjindex, k + 1)

TimerMarker == 121

TimerStep(st, idx) ==
    IF ~InList(st.sprites, idx) THEN Raise(st, "IndexError")
    ELSE IF Get(st.sprites, idx) # TimerMarker THEN st
    ELSE IF ~InList(st.info, idx) THEN Raise(st, "IndexError")
    ELSE
      LET timedobjindex == switchindex(Get(st.info, idx))
      IN  IF ~InList(st.info, timedobjindex) THEN Raise(st, "IndexError")
          ELSE
            LET starttime == timeval(Get(st.info, timedobjindex))
                st1 == [st EXCEPT !.info = Put(Put(st.info, idx, 0), timedobjindex, 0),
                                  !.sprites = Put(st.sprites, idx, 0)]
                e == FindEnd(st1, timedobjindex, 1)
            IN  IF e.kind = "IndexError" THEN Raise(st1, "IndexError")
                \* endtime is None: the format of rtl.py:219 subscripts it
                ELSE IF e.kind = "none" THEN Raise(st1, "TypeError")
                ELSE [st1 EXCEPT
                        !.info = Put(st1.info, e.pos, 0),
                        !.switchdata = SetKey(st1.switchdata, timedobjindex,
                            TimerText(starttime, timeval(Get(st1.info, e.pos))))]

-----------------------------------------------------------------------------
(* Switches: rtl.py:229-238, for the value v found at one index *)

SwitchStep(st, v) ==
    IF v > 256 /\ v < 32768
    THEN LET swindex == switchindex(v)
         IN  IF swindex \notin DOMAIN st.switchdata
             THEN [st EXCEPT !.switchdata = SetKey(st.switchdata, swindex,
                                                   SwitchLabel(st.switchnum)),
                             !.switchnum = st.switchnum + 1]
             ELSE st
    ELSE st

-----------------------------------------------------------------------------
(* Item arches and lines: rtl.py:242-293, for the value v (11 or 12) found *)
(* at index idx.                                                           *)

LineValue == 11
ArchValue == 12
Trampoline == 193
LiftBase == 45056

(* A count of iterations, or the negative number that stands for a walk    *)
(* that does not end (-1) or that raised (-2), plus c further iterations   *)
PlusSteps(r, c) == IF r < 0 THEN r ELSE r + c

(* rtl.py:247-250: at most n iterations of the while loop from pos in      *)
(* direction checkdir: how it ended ("stop" when the value at pos is not   *)
(* v, "hang" when the loop is back at a position it has been at,           *)
(* "IndexError" when pos is beyond the end of the list, "" when n          *)
(* iterations were run), the iterations run, and the position and the      *)
(* positions passed at that point                                          *)
RECURSIVE WalkSteps(_, _, _, _, _, _)
WalkSteps(st, pos, checkdir, v, seen, n) ==
    IF ~InList(st.info, pos)
    THEN [end |-> "IndexError", count |-> 0, pos |-> pos, seen |-> seen]
    ELSE IF Get(st.info, pos) # v
    THEN [end |-> "stop", count |-> 0, pos |-> pos, seen |-> seen]
    ELSE IF pos \in seen
    THEN [end |-> "hang", count |-> 0, pos |-> pos, seen |-> seen]
    ELSE IF n = 0
    THEN [end |-> "", count |-> 0, pos |-> pos, seen |-> seen]
    ELSE [WalkSteps(st, move(pos, checkdir, 1), checkdir, v, seen \cup {pos}, n - 1)
             EXCEPT !.count = @ + 1]

(* rtl.py:247-250: the number of times the body of the while loop runs     *)
(* from pos in direction checkdir; -1 when the loop comes back to a        *)
(* position it has been at (it never ends), -2 when it indexes the list    *)
(* beyond its end.  The iterations are run MapWidth \div 8 at a time.      *)
RECURSIVE WalkFrom(_, _, _, _)
WalkFrom(st, checkdir, v, b) ==
    IF b.end = "hang" THEN -1
    ELSE IF b.end = "IndexError" THEN -2
    ELSE IF b.end = "stop" THEN b.count
    ELSE PlusSteps(WalkFrom(st, checkdir, v,
                            WalkSteps(st, b.pos, checkdir, v, b.seen, MapWidth \div 8)),
                   b.count)

Walk(st, pos, checkdir, v, seen) ==
    WalkFrom(st, checkdir, v, [end |-> "", count |-> 0, pos |-> pos, seen |-> seen])

(* A variant that tries up and down first whatever the region *)
CheckOrder_upfirst(region) == <<UP, DOWN, LEFT, RIGHT>>

(* rtl.py:254-257 *)
CheckOrder(region) ==
    IF region[1] > region[2] THEN <<LEFT, RIGHT, UP, DOWN>> ELSE <<UP, DOWN, LEFT, RIGHT>>

(* rtl.py:260-265: the cell of the region from which the trampoline is     *)
(* looked for in direction checkdir                                        *)
EdgePos(idx, region, checkdir) ==
    LET mid == move(idx, ((checkdir + 1) % 2) * 3, region[((checkdir + 1) % 2) + 1] \div 2)
    IN  IF checkdir \in {RIGHT, DOWN}
        THEN move(mid, checkdir, region[(checkdir % 2) + 1] - 1)
        ELSE mid

(* rtl.py:253-271: the orientation found by the candidates from the k-th   *)
(* on; -1 when none has a trampoline; "IndexError" as kind when the sprite *)
(* list is indexed beyond its end.                                         *)
RECURSIVE FindOrientation(_, _, _, _, _)
FindOrientation(st, idx, region, checkorder, k) ==
    IF k > Len(checkorder) THEN [kind |-> "ok", orientation |-> -1]
    ELSE LET checkdir == checkorder[k]
             pos == EdgePos(idx, region, checkdir)
         IN  IF ~InList(st.sprites, move(pos, checkdir, 1)) THEN [kind |-> "IndexError"]
             ELSE IF nextsprite(st, pos, checkdir, 1) = Trampoline
                 THEN [kind |-> "ok", orientation |-> (checkdir + 2) % 4]
             ELSE FindOrientation(st, idx, region, checkorder, k + 1)

(* rtl.py:274-277 *)
StartPos(idx, region, orientation) ==
    IF orientation \in {LEFT, UP}
    THEN move(idx, (orientation + 2) % 4, region[(orientation % 2) + 1] - 1)
    ELSE idx

(* int(x) of Python for the quotient a/b, b > 0: rounds towards zero *)
TruncDiv(a, b) == IF a >= 0 THEN a \div b ELSE -((-a) \div b)

(* math.sin(i*math.pi/n), in units of 1/100000, for n in 1..8, 0 <= i < n *)
SinTable ==
    << <<0>>,
       <<0, 100000>>,
       <<0, 86602, 86602>>,
       <<0, 70710, 100000, 70710>>,
       <<0, 58778, 95105, 95105, 58778>>,
       <<0, 49999, 86602, 100000, 86602, 49999>>,
       <<0, 43388, 78183, 97492, 97492, 78183, 43388>>,
       <<0, 38268, 70710, 92387, 100000, 92387, 70710, 38268>> >>

(* rtl.py:286: int(math.sin(i*math.pi/n)*(height-64)/4) *)
LineLift(i, n, h) == TruncDiv(SinTable[n][i + 1] * (h - 64), 400000)

(* rtl.py:284-291: the inner loop, from its j-th iteration on *)
RECURSIVE LoftRow(_, _, _, _, _, _, _, _)
LoftRow(st, pos, v, i, n1, j, n2, perpdir) ==
    IF j >= n2 THEN st
    ELSE IF v = ArchValue /\ n1 - 1 = 0 THEN Raise(st, "ZeroDivisionError")
    ELSE IF ~InList(st.info, pos) THEN Raise(st, "IndexError")
    ELSE LET val == IF v = LineValue
                    THEN LiftBase + LineLift(i, n1, st.height)
                    ELSE LiftBase + ((i * (st.height - 64)) \div (4 * (n1 - 1)))
         IN  LoftRow([st EXCEPT !.info = Put(st.info, pos, val)],
                     move(pos, perpdir, 1), v, i, n1, j + 1, n2, perpdir)

(* rtl.py:280-293: the outer loop, from its i-th iteration on *)
RECURSIVE Loft(_, _, _, _, _, _, _)
Loft(st, pos, v, i, n1, n2, orientation) ==
    IF i >= n1 THEN st
    ELSE LET r == LoftRow(st, pos, v, i, n1, 0, n2, ((orientation + 1) % 2) * 3)
         IN  IF r.err # "" THEN r
             ELSE Loft(r, move(pos, orientation, 1), v, i + 1, n1, n2, orientation)

ArchStep(st, idx, v) ==
    LET w == Walk(st, idx, RIGHT, v, {})
        h == IF w < 0 THEN w ELSE Walk(st, idx, DOWN, v, {})
        region == <<w, h>>
    IN  IF w = -1 \/ h = -1 THEN Raise(st, "hang")
        ELSE IF w = -2 \/ h = -2 THEN Raise(st, "IndexError")
        ELSE LET f == FindOrientation(st, idx, region, CheckOrder(region), 1)
             IN  IF f.kind = "IndexError" THEN Raise(st, "IndexError")
                 ELSE Loft(st, StartPos(idx, region, f.orientation), v, 0,
                           region[(f.orientation % 2) + 1],
                           region[((f.orientation + 1) % 2) + 1],
                           f.orientation)

(* One iteration of the loop of rtl.py:222-293, at an index >= 7 *)
ScanStep(st, idx) ==
    LET v == Get(st.info, idx)
        s1 == SwitchStep(st, v)
    IN  IF v = LineValue \/ v = ArchValue THEN ArchStep(s1, idx, v) ELSE s1

-----------------------------------------------------------------------------
(* Post-processing of one decoded level, Level.__init__, rtl.py:128-150    *)

Unset == "unset"
NoEntries == [k \in {} |-> ""]

Cur == [walls |-> walls, sprites |-> sprites, info |-> info,
        switchdata |-> switchdata, switchnum |-> switchnum,
        height |-> height, err |-> ""]

(* rtl.py:132-136 *)
HeightOf(tempheight) ==
    IF tempheight < 256 THEN (tempheight - 89) * 64 ELSE (tempheight - 441) * 64

(* rtl.py:129 *)
FloorOf(wall0) == wall0 - 179

(* A variant that zeroes the first seven positions as soon as the header   *)
(* fields are taken                                                        *)
ExtractHeader_zeroing ==
    /\ pc = "header"
    /\ IF walls.len = 0 \/ sprites.len = 0 \/ info.len = 0
       THEN /\ pc' = "IndexError"
            /\ UNCHANGED <<floor, height, song, switchdata, switchnum, index,
                           walls, sprites, info>>
       ELSE /\ floor' = FloorOf(Get(walls, 0))
            /\ height' = HeightOf(Get(sprites, 0))
            /\ song' = Get(info, 0)
            /\ walls' = ZeroFirst7(walls)
            /\ sprites' = ZeroFirst7(sprites)
            /\ info' = ZeroFirst7(info)
            /\ IF noprocess
               THEN pc' = "done" /\ UNCHANGED <<switchdata, switchnum, index>>
               ELSE /\ pc' = "timers"
                    /\ switchdata' = NoEntries
                    /\ switchnum' = 0
                    /\ index' = -1

(* rtl.py:129-146 and 195-196: the header-carried fields are read; with    *)
(* noprocess the level is complete, otherwise interpret_info begins.       *)
ExtractHeader ==
    /\ pc = "header"
    /\ IF walls.len = 0 \/ sprites.len = 0 \/ info.len = 0
       THEN /\ pc' = "IndexError"
            /\ UNCHANGED <<floor, height, song, switchdata, switchnum, index>>
       ELSE /\ floor' = FloorOf(Get(walls, 0))
            /\ height' = HeightOf(Get(sprites, 0))
            /\ song' = Get(info, 0)
            /\ IF noprocess
               THEN pc' = "done" /\ UNCHANGED <<switchdata, switchnum, index>>
               ELSE /\ pc' = "timers"
                    /\ switchdata' = NoEntries
                    /\ switchnum' = 0
                    /\ index' = -1
    /\ UNCHANGED <<walls, sprites, info>>

(* The indices of range(15) after `from` at which the loop of rtl.py:200   *)
(* does anything: those holding the timer marker, and the end of a sprite  *)
(* list shorter than 15.                                                   *)
TimerRange == 15

TimerStops(st, from) ==
    {i \in (from + 1)..(TimerRange - 1) :
        ~InList(st.sprites, i) \/ Get(st.sprites, i) = TimerMarker}

Min(S) == CHOOSE x \in S : \A y \in S : x <= y

Store(st) ==
    /\ walls' = st.walls
    /\ sprites' = st.sprites
    /\ info' = st.info
    /\ switchdata' = st.switchdata
    /\ switchnum' = st.switchnum

(* rtl.py:200-220: the loop runs up to and through its next timer *)
Timer ==
    /\ pc = "timers"
    /\ TimerStops(Cur, index) # {}
    /\ LET i == Min(TimerStops(Cur, index))
           st == TimerStep(Cur, i)
       IN  /\ Store(st)
           /\ index' = i
           /\ pc' = IF st.err = "" THEN "timers" ELSE st.err
    /\ UNCHANGED <<floor, height, song>>

(* rtl.py:200, 222-225: the timer loop ends; the loop over the info layer  *)
(* begins and skips the indices below 7                                    *)
FirstScanned == 7

TimersEnd ==
    /\ pc = "timers"
    /\ TimerStops(Cur, index) = {}
    /\ pc' = "scan"
    /\ index' = FirstScanned - 1
    /\ UNCHANGED <<walls, sprites, info, floor, height, song, switchdata, switchnum>>

(* The indices after `from` at which the loop of rtl.py:222-293 does       *)
(* anything: an info value of 0 is neither a switch nor an arch or a line. *)
ScanStops(st, from) == {i \in DOMAIN st.info.cells : i > from /\ i < st.info.len}

(* rtl.py:222-293: the loop runs up to and through its next value *)
Scan ==
    /\ pc = "scan"
    /\ ScanStops(Cur, index) # {}
    /\ LET i == Min(ScanStops(Cur, index))
           st == ScanStep(Cur, i)
       IN  /\ Store(st)
           /\ index' = i
           /\ pc' = IF st.err = "" THEN "scan" ELSE st.err
    /\ UNCHANGED <<floor, height, song>>

(* rtl.py:148-150: interpret_info has returned; the first seven positions  *)
(* of the three layers are zeroed                                          *)
ZeroHeader ==
    /\ pc = "scan"
    /\ ScanStops(Cur, index) = {}
    /\ walls' = ZeroFirst7(walls)
    /\ sprites' = ZeroFirst7(sprites)
    /\ info' = ZeroFirst7(info)
    /\ pc' = "done"
    /\ UNCHANGED <<floor, height, song, switchdata, switchnum, index>>

-----------------------------------------------------------------------------
(* Decoded levels on which post-processing is run.  Every layer has the    *)
(* 16384 entries of a 128 x 128 map; the entries not named hold 0.         *)

RECURSIVE PutAll(_, _)
PutAll(L, pairs) ==
    IF pairs = <<>> THEN L
    ELSE PutAll(Put(L, pairs[1][1], pairs[1][2]), Tail(pairs))

Blank == [len |-> MapCells, cells |-> EmptyCells]

At(row, col) == row * MapWidth + col

OnMap(row, col) == row >= 0 /\ row < MapWidth /\ col >= 0 /\ col < MapWidth

(* The info value XXYY that names the cell in column XX of row YY *)
Pack(col, row) == col * 256 + row

SetToSeq(S) ==
    LET RECURSIVE Conv(_)
        Conv(T) == IF T = {} THEN <<>>
                   ELSE LET x == Min(T) IN <<x>> \o Conv(T \ {x})
    IN  Conv(S)

(* ---- levels with timers ---- *)
TimerIdx == {3, 14}
TimerInfos == {Pack(5, 0), Pack(4, 0), Pack(2, 1), Pack(127, 127), 65535}
StartInfos == {0, 258}
EndInfoOf(d) == 773 + 257 * d
NeighbourOffset == <<1, -MapWidth, -1, MapWidth>>

(* The cells next to t by plain index arithmetic, for the directions of D *)
RECURSIVE EndPairs(_, _)
EndPairs(t, D) ==
    IF D = {} THEN <<>>
    ELSE LET d == Min(D)
             c == t + NeighbourOffset[d + 1]
         IN  (IF c >= 0 /\ c < MapCells THEN << <<c, EndInfoOf(d)>> >> ELSE <<>>)
                 \o EndPairs(t, D \ {d})

TimerLevel(i, tinfo, start, D, song0, second) ==
    LET t == switchindex(tinfo)
    IN  [walls |-> Blank,
         sprites |-> PutAll(Blank, << <<i, TimerMarker>> >>
                        \o (IF second THEN << <<5, TimerMarker>> >> ELSE <<>>)),
         info |-> PutAll(Blank,
                        (IF t < MapCells THEN EndPairs(t, D) \o << <<t, start>> >> ELSE <<>>)
                        \o << <<0, song0>>, <<i, tinfo>> >>)]

TimerLevels ==
    {TimerLevel(i, tinfo, start, D, song0, second) :
        i \in TimerIdx, tinfo \in TimerInfos, start \in StartInfos,
        D \in SUBSET {RIGHT, UP, LEFT, DOWN}, song0 \in {0, 773},
        second \in BOOLEAN}

(* ---- levels with switch-triggered objects ---- *)
MaxSwitches == 28

(* n objects at every third index from 200 on; the k-th names the cell in  *)
(* column 2 of row k % m, so that targets repeat when m < n                *)
SwitchPairs(n, m) == [k \in 1..n |-> <<200 + 3 * (k - 1), Pack(2, (k - 1) % m)>>]

SwitchLevel(n, m, lead, low, timed) ==
    [walls |-> Blank,
     sprites |-> IF timed THEN PutAll(Blank, << <<3, TimerMarker>> >>) ELSE Blank,
     info |-> PutAll(Blank,
                 SwitchPairs(n, m)
                 \o << <<7, lead>> >>
                 \o (IF low THEN << <<4, Pack(9, 9)>>, <<6, Pack(9, 10)>> >> ELSE <<>>)
                 \o (IF timed THEN << <<3, Pack(2, 1)>>, <<At(1, 2), 258>>,
                                      <<At(1, 3), 773>> >>
                     ELSE <<>>))]

SwitchLevels ==
    {SwitchLevel(n, m, lead, low, timed) :
        n \in 0..MaxSwitches, m \in {5, MaxSwitches + 1},
        lead \in {0, 256, 257, 32767, 32768}, low \in BOOLEAN, timed \in BOOLEAN}

(* ---- levels with one arch or line region ---- *)
MaxRegion == 3

(* Where the upper-left cell of a w x h region is put: inside the map, in  *)
(* the first scanned cells of row 0, against the right border, or in the   *)
(* lower-right corner.                                                     *)
Anchors == {"inner", "top", "right", "corner"}

OriginRow(a, h) == IF a = "top" THEN 0 ELSE IF a = "corner" THEN MapWidth - h ELSE 4
OriginCol(a, w) == IF a \in {"right", "corner"} THEN MapWidth - w ELSE 8

RegionCells(r0, c0, w, h) == {At(r0 + dr, c0 + dc) : dr \in 0..(h - 1), dc \in 0..(w - 1)}

(* The cell one step beyond the middle of the region's edge on side d *)
BeyondRow(r0, h, d) ==
    IF d = UP THEN r0 - 1 ELSE IF d = DOWN THEN r0 + h ELSE r0 + (h \div 2)
BeyondCol(c0, w, d) ==
    IF d = LEFT THEN c0 - 1 ELSE IF d = RIGHT THEN c0 + w ELSE c0 + (w \div 2)

TrampolineCells(r0, c0, w, h, D) ==
    {At(BeyondRow(r0, h, d), BeyondCol(c0, w, d)) :
        d \in {e \in D : OnMap(BeyondRow(r0, h, e), BeyondCol(c0, w, e))}}

TrampolineSides == {{}, {LEFT}, {RIGHT}, {UP}, {DOWN}, {RIGHT, UP, LEFT, DOWN}}

HeightCodes == {92, 193, 443}

ArchLevel(v, a, w, h, D, song0, code, notch) ==
    LET r0 == OriginRow(a, h)
        c0 == OriginCol(a, w)
        last == At(r0 + h - 1, c0 + w - 1)
    IN  [walls |-> Blank,
         sprites |-> PutAll(Blank,
                        [k \in 1..Cardinality(TrampolineCells(r0, c0, w, h, D)) |->
                            <<SetToSeq(TrampolineCells(r0, c0, w, h, D))[k], Trampoline>>]
                        \o << <<0, code>> >>),
         info |-> PutAll(Blank,
                     [k \in 1..(w * h) |-> <<SetToSeq(RegionCells(r0, c0, w, h))[k], v>>]
                     \o (IF notch THEN << <<last, Pack(3, 0)>> >> ELSE <<>>)
                     \o << <<0, song0>> >>)]

ArchLevels ==
    {ArchLevel(v, a, w, h, D, song0, code, notch) :
        v \in {LineValue, ArchValue}, a \in Anchors,
        w \in 1..MaxRegion, h \in 1..MaxRegion, D \in TrampolineSides,
        song0 \in {0, ArchValue}, code \in HeightCodes, notch \in BOOLEAN}

(* ---- levels whose row 0 or column 0 holds the region value in every     *)
(* cell, position 0 (the song number) included ---- *)
FirstRow == {At(0, c) : c \in 0..(MapWidth - 1)}
FirstColumn == {At(r, 0) : r \in 0..(MapWidth - 1)}

LineLevel(v, cells, code) ==
    [walls |-> Blank,
     sprites |-> PutAll(Blank, << <<0, code>> >>),
     info |-> [len |-> MapCells, cells |-> [c \in cells |-> v]]]

LineLevels ==
    {LineLevel(v, cells, code) :
        v \in {LineValue, ArchValue},
        cells \in {FirstRow, FirstColumn},
        code \in HeightCodes}

LevelInputs == TimerLevels \cup SwitchLevels \cup ArchLevels \cup LineLevels

-----------------------------------------------------------------------------
(* The variables of the parts that a specification does not run *)

IdleLevel ==
    /\ walls = Blank /\ sprites = Blank /\ info = Blank
    /\ floor = Unset /\ height = Unset /\ song = Unset
    /\ switchdata = NoEntries /\ switchnum = 0 /\ index = -1 /\ pc = "idle"

IdleRtl ==
    /\ filedata = <<>> /\ fpos = 0 /\ slot = 0 /\ levels = <<>>
    /\ hdrpos = <<>> /\ rpc = "idle"

IdleCalls == dec = <<>> /\ mv = <<>>

IdleWad ==
    /\ wadid = <<>> /\ numlumps = 0 /\ lumpnum = 0 /\ block = <<>>
    /\ data = <<>> /\ db = <<>> /\ palette = <<>> /\ wpc = "idle"
    /\ lump = <<>>

-----------------------------------------------------------------------------
(* SpecLevel: Level.__init__ from the decoded layers on *)

InitLevel ==
    /\ \E L \in LevelInputs :
          /\ walls = L.walls
          /\ sprites = L.sprites
          /\ info = L.info
    /\ noprocess \in BOOLEAN
    /\ floor = Unset /\ height = Unset /\ song = Unset
    /\ switchdata = NoEntries /\ switchnum = 0 /\ index = -1
    /\ pc = "header"
    /\ IdleRtl
    /\ IdleCalls
    /\ IdleWad

NextLevel ==
    \/ ExtractHeader /\ UNCHANGED <<rtlvars, noprocess, dec, mv, wadvars>>
    \/ Timer /\ UNCHANGED <<rtlvars, noprocess, dec, mv, wadvars>>
    \/ TimersEnd /\ UNCHANGED <<rtlvars, noprocess, dec, mv, wadvars>>
    \/ Scan /\ UNCHANGED <<rtlvars, noprocess, dec, mv, wadvars>>
    \/ ZeroHeader /\ UNCHANGED <<rtlvars, noprocess, dec, mv, wadvars>>

SpecLevel == InitLevel /\ [][NextLevel]_vars

-----------------------------------------------------------------------------
(* Level.interpret_info as a whole, rtl.py:172-293 *)

RECURSIVE RunTimers(_, _)
RunTimers(st, from) ==
    IF st.err # "" \/ TimerStops(st, from) = {} THEN st
    ELSE LET i == Min(TimerStops(st, from)) IN RunTimers(TimerStep(st, i), i)

RECURSIVE RunScan(_, _)
RunScan(st, from) ==
    IF st.err # "" \/ ScanStops(st, from) = {} THEN st
    ELSE LET i == Min(ScanStops(st, from)) IN RunScan(ScanStep(st, i), i)

interpret_info(st) ==
    RunScan(RunTimers([st EXCEPT !.switchdata = NoEntries, !.switchnum = 0], -1),
            FirstScanned - 1)

-----------------------------------------------------------------------------
(* The file: a sequence of bytes; the byte at offset p is file[p + 1] *)

(* filedata.read(n) at position pos: the bytes that are there, at most n *)
Read(file, pos, n) ==
    IF pos >= Len(file) THEN <<>>
    ELSE SubSeq(file, pos + 1, IF pos + n > Len(file) THEN Len(file) ELSE pos + n)

(* A seek that is relative to the position of the cursor *)
seek_from_current(cur, offset) == cur + offset

(* filedata.seek(offset) with the cursor at cur: the position afterwards *)
seek(cur, offset) == offset

(* struct.unpack of '<H' and '<L': little-endian, unsigned *)
U16(b) == b[1] + 256 * b[2]
U32(b) == b[1] + 256 * b[2] + 65536 * b[3] + 16777216 * b[4]

(* Level.decode_block, rtl.py:295-317: the loop from cursor position pos   *)
(* on, with limit = offset + length.  struct.unpack raises struct.error    *)
(* when read returns fewer bytes than the format needs.                    *)
RECURSIVE DecodeLoop(_, _, _, _, _)
DecodeLoop(file, pos, limit, RLEWtag, outdata) ==
    IF ~(pos < limit) THEN [err |-> "", out |-> outdata, pos |-> pos]
    ELSE IF Len(Read(file, pos, 2)) < 2
        THEN [err |-> "struct.error", out |-> outdata, pos |-> pos + Len(Read(file, pos, 2))]
    ELSE LET word == U16(Read(file, pos, 2))
         IN  IF word = RLEWtag
             THEN IF Len(Read(file, pos + 2, 2)) < 2
                  THEN [err |-> "struct.error", out |-> outdata,
                        pos |-> pos + 2 + Len(Read(file, pos + 2, 2))]
                  ELSE IF Len(Read(file, pos + 4, 2)) < 2
                  THEN [err |-> "struct.error", out |-> outdata,
                        pos |-> pos + 4 + Len(Read(file, pos + 4, 2))]
                  ELSE LET numwords == U16(Read(file, pos + 2, 2))
                           value == U16(Read(file, pos + 4, 2))
                       IN  DecodeLoop(file, pos + 6, limit, RLEWtag,
                                      outdata \o [count \in 1..numwords |-> value])
             ELSE DecodeLoop(file, pos + 2, limit, RLEWtag, Append(outdata, word))

(* decode_block with the end of the range taken as length, not offset + length *)
decode_block_limit(file, cur, offset, length, RLEWtag) ==
    DecodeLoop(file, seek(cur, offset), length, RLEWtag, <<>>)

(* decode_block with one escape word for every level *)
decode_block_onetag(file, cur, offset, length, RLEWtag) ==
    DecodeLoop(file, seek(cur, offset), offset + length, 43981, <<>>)

(* called with the cursor at cur *)
decode_block(file, cur, offset, length, RLEWtag) ==
    DecodeLoop(file, seek(cur, offset), offset + length, RLEWtag, <<>>)

-----------------------------------------------------------------------------
(* Level.__init__, rtl.py:101-150, on the file with its cursor at pos.     *)
(* The result names the exception raised (err), the cursor afterwards and  *)
(* the Level object.                                                       *)

HeaderSize == 64

(* str.rstrip('\0') on the name, kept as its bytes *)
RECURSIVE RStrip(_)
RStrip(s) ==
    IF s # <<>> /\ s[Len(s)] = 0 THEN RStrip(SubSeq(s, 1, Len(s) - 1)) ELSE s

(* struct.unpack of levelheader = '<LLLL3L3L24s', rtl.py:99 and 111-117 *)
Header(h) ==
    [used |-> U32(SubSeq(h, 1, 4)),
     crc |-> U32(SubSeq(h, 5, 8)),
     RLEWtag |-> U32(SubSeq(h, 9, 12)),
     specials |-> U32(SubSeq(h, 13, 16)),
     wall_offset |-> U32(SubSeq(h, 17, 20)),
     sprite_offset |-> U32(SubSeq(h, 21, 24)),
     info_offset |-> U32(SubSeq(h, 25, 28)),
     wall_length |-> U32(SubSeq(h, 29, 32)),
     sprite_length |-> U32(SubSeq(h, 33, 36)),
     info_length |-> U32(SubSeq(h, 37, 40)),
     name |-> RStrip(SubSeq(h, 41, 64))]

(* PostDecode without the seek back to lastpos of rtl.py:143 *)
PostDecode_noseek(lv, lastpos, endpos, noproc) ==
    IF lv.walls.len = 0 \/ lv.sprites.len = 0 \/ lv.info.len = 0
    THEN [err |-> "IndexError", pos |-> endpos, level |-> lv]
    ELSE LET l1 == [lv EXCEPT !.floor = FloorOf(Get(lv.walls, 0)),
                              !.height = HeightOf(Get(lv.sprites, 0)),
                              !.song = Get(lv.info, 0)]
         IN  IF noproc THEN [err |-> "", pos |-> endpos, level |-> l1]
             ELSE LET st == interpret_info(
                                [walls |-> l1.walls, sprites |-> l1.sprites,
                                 info |-> l1.info, switchdata |-> NoEntries,
                                 switchnum |-> 0, height |-> l1.height, err |-> ""])
                  IN  [err |-> st.err, pos |-> endpos,
                       level |-> [l1 EXCEPT !.walls = ZeroFirst7(st.walls),
                                            !.sprites = ZeroFirst7(st.sprites),
                                            !.info = ZeroFirst7(st.info),
                                            !.switchdata = st.switchdata]]

(* rtl.py:128-150, once the three layers are decoded *)
PostDecode(lv, lastpos, endpos, noproc) ==
    IF lv.walls.len = 0 \/ lv.sprites.len = 0 \/ lv.info.len = 0
    THEN [err |-> "IndexError", pos |-> endpos, level |-> lv]
    ELSE LET l1 == [lv EXCEPT !.floor = FloorOf(Get(lv.walls, 0)),
                              !.height = HeightOf(Get(lv.sprites, 0)),
                              !.song = Get(lv.info, 0)]
         IN  IF noproc THEN [err |-> "", pos |-> lastpos, level |-> l1]
             ELSE LET st == interpret_info(
                                [walls |-> l1.walls, sprites |-> l1.sprites,
                                 info |-> l1.info, switchdata |-> NoEntries,
                                 switchnum |-> 0, height |-> l1.height, err |-> ""])
                  IN  [err |-> st.err, pos |-> lastpos,
                       level |-> [l1 EXCEPT !.walls = ZeroFirst7(st.walls),
                                            !.sprites = ZeroFirst7(st.sprites),
                                            !.info = ZeroFirst7(st.info),
                                            !.switchdata = st.switchdata]]

LevelInit(file, pos, idx, noproc) ==
    IF Len(Read(file, pos, HeaderSize)) < HeaderSize
    THEN [err |-> "struct.error", pos |-> pos + Len(Read(file, pos, HeaderSize)),
          level |-> [index |-> idx, used |-> Unset]]
    ELSE
      LET hd == Header(Read(file, pos, HeaderSize))
          lastpos == pos + HeaderSize
          lv0 == [index |-> idx, used |-> hd.used, crc |-> hd.crc,
                  RLEWtag |-> hd.RLEWtag, specials |-> hd.specials, name |-> hd.name,
                  walls |-> Unset, sprites |-> Unset, info |-> Unset,
                  floor |-> Unset, height |-> Unset, song |-> Unset,
                  switchdata |-> Unset]
      IN  IF hd.used # 1 THEN [err |-> "", pos |-> lastpos, level |-> lv0]
          ELSE
            LET w == decode_block(file, lastpos, hd.wall_offset, hd.wall_length, hd.RLEWtag)
            IN  IF w.err # "" THEN [err |-> w.err, pos |-> w.pos, level |-> lv0]
                ELSE
                  LET s == decode_block(file, w.pos, hd.sprite_offset,
                                        hd.sprite_length, hd.RLEWtag)
                  IN  IF s.err # "" THEN [err |-> s.err, pos |-> s.pos, level |-> lv0]
                      ELSE
                        LET i == decode_block(file, s.pos, hd.info_offset,
                                              hd.info_length, hd.RLEWtag)
                        IN  IF i.err # ""
                            THEN [err |-> i.err, pos |-> i.pos, level |-> lv0]
                            ELSE PostDecode([lv0 EXCEPT !.walls = ToLayer(w.out),
                                                        !.sprites = ToLayer(s.out),
                                                        !.info = ToLayer(i.out)],
                                            lastpos, i.pos, noproc)

-----------------------------------------------------------------------------
(* RTLFile.__init__, rtl.py:47-66 *)

NumSlots == 100
VersionInfoSize == 8

(* rtl.py:58-62: the file header is read *)
Open ==
    /\ rpc = "open"
    /\ IF Len(Read(filedata, fpos, VersionInfoSize)) < VersionInfoSize
       THEN rpc' = "struct.error"
       ELSE rpc' = "slots"
    /\ fpos' = fpos + Len(Read(filedata, fpos, VersionInfoSize))
    /\ slot' = 0
    /\ levels' = <<>>
    /\ UNCHANGED <<filedata, hdrpos>>

(* ReadSlot keeping every level whose used flag is not 0 *)
ReadSlot_nonzero ==
    /\ rpc = "slots"
    /\ slot < NumSlots
    /\ LET r == LevelInit(filedata, fpos, slot, noprocess)
       IN  /\ hdrpos' = Append(hdrpos, fpos)
           /\ fpos' = r.pos
           /\ IF r.err # ""
              THEN rpc' = r.err /\ UNCHANGED <<levels, slot>>
              ELSE /\ levels' = IF r.level.used # 0 THEN Append(levels, r.level)
                                ELSE levels
                   /\ slot' = slot + 1
                   /\ rpc' = IF slot + 1 = NumSlots THEN "done" ELSE "slots"
    /\ UNCHANGED filedata

(* rtl.py:63-66: one iteration of the loop over the 100 slots *)
ReadSlot ==
    /\ rpc = "slots"
    /\ slot < NumSlots
    /\ LET r == LevelInit(filedata, fpos, slot, noprocess)
       IN  /\ hdrpos' = Append(hdrpos, fpos)
           /\ fpos' = r.pos
           /\ IF r.err # ""
              THEN rpc' = r.err /\ UNCHANGED <<levels, slot>>
              ELSE /\ levels' = IF r.level.used = 1 THEN Append(levels, r.level)
                                ELSE levels
                   /\ slot' = slot + 1
                   /\ rpc' = IF slot + 1 = NumSlots THEN "done" ELSE "slots"
    /\ UNCHANGED filedata

-----------------------------------------------------------------------------
(* RTL/RTC files that are loaded *)

LE16(n) == <<n % 256, n \div 256>>
LE32(n) == <<n % 256, (n \div 256) % 256, (n \div 65536) % 256, n \div 16777216>>

Zeros(n) == [k \in 1..n |-> 0]

RECURSIVE Flatten(_)
Flatten(ss) == IF ss = <<>> THEN <<>> ELSE ss[1] \o Flatten(Tail(ss))

(* The bytes of a slot header with the given fields and the name "MAP" *)
SlotHeader(used, tag, wo, so, io, wl, sl, il) ==
    LE32(used) \o LE32(0) \o LE32(tag) \o LE32(0)
        \o LE32(wo) \o LE32(so) \o LE32(io) \o LE32(wl) \o LE32(sl) \o LE32(il)
        \o <<77, 65, 80>> \o Zeros(21)

(* Two escape words *)
TagA == 43981
TagB == 65261

(* The layer data, which follows the 100 slot headers: as words            *)
(*   TagA 16384 0 | TagA 20 0 | 7 | TagA 0 9 | 5 | TagB 2 4 | TagA          *)
DataStart == VersionInfoSize + NumSlots * HeaderSize

DataWords ==
    <<TagA, MapCells, 0, TagA, 20, 0, 7, TagA, 0, 9, 5, TagB, 2, 4, TagA>>

DataBytes == Flatten([k \in 1..Len(DataWords) |-> LE16(DataWords[k])])

WordAt(k) == DataStart + 2 * k

(* The kinds of slot: the used flag, the escape word and the byte ranges   *)
(* (offset, length) of the three layers                                    *)
SlotKinds ==
    [unused |-> SlotHeader(0, 0, 0, 0, 0, 0, 0, 0),
     flag2  |-> SlotHeader(2, TagA, WordAt(40), WordAt(3), WordAt(3), 2, 6, 6),
     full   |-> SlotHeader(1, TagA, WordAt(0), WordAt(0), WordAt(0), 6, 6, 6),
     short  |-> SlotHeader(1, TagA, WordAt(3), WordAt(3), WordAt(3), 6, 8, 16),
     tiny   |-> SlotHeader(1, TagB, WordAt(10), WordAt(10), WordAt(6), 2, 8, 2),
     retag  |-> SlotHeader(1, TagB, WordAt(3), WordAt(3), WordAt(3), 6, 8, 16),
     odd    |-> SlotHeader(1, TagA, WordAt(3), WordAt(6), WordAt(10), 5, 1, 3),
     empty  |-> SlotHeader(1, TagA, WordAt(7), WordAt(3), WordAt(3), 6, 6, 6),
     beyond |-> SlotHeader(1, TagA, WordAt(40), WordAt(3), WordAt(3), 2, 6, 6),
     midrun |-> SlotHeader(1, TagA, WordAt(3), WordAt(3), WordAt(3), 2, 4, 6),
     atend  |-> SlotHeader(1, TagA, WordAt(14), WordAt(3), WordAt(3), 2, 6, 6),
     inhdr  |-> SlotHeader(1, TagA, 0, VersionInfoSize, 2, 4, 4, 6)]

ActiveSlots == {0, 57, 99}

KindsOf(k) ==
    IF k = 0 THEN DOMAIN SlotKinds
    ELSE IF k = 57 THEN {"unused", "flag2", "short", "retag", "midrun"}
    ELSE {"unused", "full", "tiny"}

RtlFile(sig, kinds) ==
    sig \o LE32(1)
        \o Flatten([k \in 1..NumSlots |->
                      IF (k - 1) \in ActiveSlots THEN SlotKinds[kinds[k - 1]]
                      ELSE SlotKinds["unused"]])
        \o DataBytes

Signatures == {<<82, 84, 76, 0>>, <<0, 0, 0, 0>>}

KindChoices ==
    {f \in [ActiveSlots -> DOMAIN SlotKinds] : \A k \in ActiveSlots : f[k] \in KindsOf(k)}

BaseKinds == [k \in ActiveSlots |-> IF k = 0 THEN "short" ELSE IF k = 57 THEN "retag" ELSE "full"]

NoneUsed == [k \in ActiveSlots |-> "unused"]

(* A file cut short: in the file header, in a slot header, or not at all *)
Cuts == {4, VersionInfoSize + 3 * HeaderSize + 10, DataStart + Len(DataBytes)}

IsRtlFile(file) ==
    \/ \E kinds \in KindChoices : file = RtlFile(<<82, 84, 76, 0>>, kinds)
    \/ \E sig \in Signatures, cut \in Cuts : file = SubSeq(RtlFile(sig, BaseKinds), 1, cut)
    \/ \E sig \in Signatures, cut \in Cuts : file = SubSeq(RtlFile(sig, NoneUsed), 1, cut)

-----------------------------------------------------------------------------
(* SpecRtl: RTLFile(filename, noprocess) *)

InitRtl ==
    /\ IsRtlFile(filedata)
    /\ noprocess \in BOOLEAN
    /\ fpos = 0 /\ slot = 0 /\ levels = <<>> /\ hdrpos = <<>>
    /\ rpc = "open"
    /\ IdleLevel
    /\ IdleCalls
    /\ IdleWad

NextRtl ==
    \/ Open /\ UNCHANGED <<lvlvars, noprocess, dec, mv, wadvars>>
    \/ ReadSlot /\ UNCHANGED <<lvlvars, noprocess, dec, mv, wadvars>>

SpecRtl == InitRtl /\ [][NextRtl]_vars

-----------------------------------------------------------------------------
(* SpecMove: Level.move called on its own *)

MaxDistance == 2

Distances == 0..MaxDistance \cup {MapWidth - 1, MapWidth, MapWidth + 1}

MoveCall ==
    /\ mv = <<>>
    /\ \E idx \in 0..(MapCells - 1), direction \in {RIGHT, UP, LEFT, DOWN, NODIR},
          distance \in Distances :
          mv' = [index |-> idx, direction |-> direction, distance |-> distance,
                 result |-> move(idx, direction, distance)]
    /\ UNCHANGED <<rtlvars, lvlvars, noprocess, dec, wadvars>>

InitMove ==
    /\ mv = <<>> /\ dec = <<>>
    /\ noprocess = FALSE
    /\ IdleRtl
    /\ IdleLevel
    /\ IdleWad

NextMove == MoveCall

SpecMove == InitMove /\ [][NextMove]_vars

-----------------------------------------------------------------------------
(* SpecDecode: Level.decode_block called on its own, on a stream written   *)
(* by a run-length encoder.  The repository holds no encoder: a stream is  *)
(* any sequence of tokens, each a literal word or a run (count, value),    *)
(* written as words with runs introduced by the escape word.               *)

MaxTokens == 3
MaxRun == 2

Words == {0, 1, 258}
Escapes == {1, 43981}

Tokens ==
    {<<"lit", w>> : w \in Words} \cup {<<"run", n, v>> : n \in 0..MaxRun, v \in Words}

RECURSIVE SeqsUpTo(_, _)
SeqsUpTo(S, n) ==
    IF n = 0 THEN {<<>>}
    ELSE SeqsUpTo(S, n - 1) \cup {Append(q, x) : q \in SeqsUpTo(S, n - 1), x \in S}

(* The words an encoder writes for a token *)
TokenWords(t, escape) == IF t[1] = "lit" THEN <<t[2]>> ELSE <<escape, t[2], t[3]>>

(* The words a token stands for *)
TokenMeaning(t) == IF t[1] = "lit" THEN <<t[2]>> ELSE [k \in 1..t[2] |-> t[3]]

EncodeTokens(toks, escape) ==
    Flatten([k \in 1..Len(toks) |-> LE16(TokenWords(toks[k], escape)[1])
                \o (IF toks[k][1] = "run"
                    THEN LE16(toks[k][2]) \o LE16(toks[k][3]) ELSE <<>>)])

Meaning(toks) == Flatten([k \in 1..Len(toks) |-> TokenMeaning(toks[k])])

(* Bytes that precede and follow the stream in the file *)
Paddings == {<<>>, <<1, 0, 9>>}

DecodeEncoded ==
    /\ dec = <<>>
    /\ \E toks \in SeqsUpTo(Tokens, MaxTokens), escape \in Escapes, pad \in Paddings :
          dec' = [tokens |-> toks,
                  source |-> Meaning(toks),
                  file |-> pad \o EncodeTokens(toks, escape) \o pad,
                  offset |-> Len(pad),
                  length |-> Len(EncodeTokens(toks, escape)),
                  RLEWtag |-> escape,
                  result |-> decode_block(pad \o EncodeTokens(toks, escape) \o pad,
                                          0, Len(pad), Len(EncodeTokens(toks, escape)),
                                          escape)]
    /\ UNCHANGED <<rtlvars, lvlvars, noprocess, mv, wadvars>>

InitDecode ==
    /\ mv = <<>> /\ dec = <<>>
    /\ noprocess = FALSE
    /\ IdleRtl
    /\ IdleLevel
    /\ IdleWad

NextDecode == DecodeEncoded

SpecDecode == InitDecode /\ [][NextDecode]_vars

-----------------------------------------------------------------------------
(* Claims about Level.move *)

RowOf(c) == c \div MapWidth
ColOf(c) == c % MapWidth

(* The cell `distance` steps from c in the given direction of the map, and *)
(* 0 when the map has no such cell                                         *)
CellAt(c, direction, distance) ==
    LET r == RowOf(c) + (IF direction = DOWN THEN distance
                         ELSE IF direction = UP THEN -distance ELSE 0)
        k == ColOf(c) + (IF direction = RIGHT THEN distance
                         ELSE IF direction = LEFT THEN -distance ELSE 0)
    IN  IF OnMap(r, k) THEN At(r, k) ELSE 0

MoveCalled == DOMAIN mv # {}

(* C7: for every index of the map, every one of the four directions and    *)
(* every distance >= 0, move returns a cell of the map: the cell that many *)
(* rows up or down, or that many columns left or right in the same row,    *)
(* and 0 when there is no such cell; it never wraps into another row.      *)
(* In particular move(0,LEFT,1) = move(0,UP,1) = move(127,RIGHT,1) =       *)
(* move(128,UP,1) = 0.                                                     *)
C7_MoveStaysOnMap ==
    (MoveCalled /\ mv.direction \in {RIGHT, UP, LEFT, DOWN}) =>
        /\ mv.result \in 0..(MapCells - 1)
        /\ mv.result = CellAt(mv.index, mv.direction, mv.distance)
        /\ (mv.direction \in {LEFT, RIGHT} /\ mv.result # 0)
              => RowOf(mv.result) = RowOf(mv.index)
        /\ (mv.direction \in {UP, DOWN} /\ mv.result # 0)
              => ColOf(mv.result) = ColOf(mv.index)
        /\ (mv.distance = 1 /\ <<mv.index, mv.direction>> \in
                {<<0, LEFT>>, <<0, UP>>, <<127, RIGHT>>, <<128, UP>>})
              => mv.result = 0

C7_Witness ==
    /\ MoveCalled
    /\ mv.index = 127 /\ mv.direction = RIGHT /\ mv.distance = 1 /\ mv.result = 0

-----------------------------------------------------------------------------
(* Claims about Level.decode_block on encoded streams *)

DecodeCalled == DOMAIN dec # {}

NoLiteralEscape ==
    \A k \in 1..Len(dec.tokens) :
        dec.tokens[k][1] = "lit" => dec.tokens[k][2] # dec.RLEWtag

(* C2: for every sequence of words and every escape word that no literal   *)
(* of the encoding equals, decoding the run-length encoding of the         *)
(* sequence with that escape word returns the sequence.                    *)
C2_RoundTrip ==
    (DecodeCalled /\ NoLiteralEscape) =>
        /\ dec.result.err = ""
        /\ dec.result.out = dec.source

C2_Witness ==
    /\ DecodeCalled
    /\ NoLiteralEscape
    /\ dec.offset > 0
    /\ Len(dec.tokens) = 3
    /\ dec.tokens[1] = <<"run", 2, 258>>
    /\ dec.tokens[2] = <<"run", 0, 1>>
    /\ dec.tokens[3][1] = "lit"
    /\ dec.result.out = <<258, 258, dec.tokens[3][2]>>

-----------------------------------------------------------------------------
(* Claims about RTLFile.__init__ and the decoding of the layers *)

(* The 32-bit field n (0..9) of the header of slot k, from the bytes *)
SlotOffset(k) == 8 + 64 * k

FieldAt(k, n) ==
    LET p == SlotOffset(k) + 4 * n
    IN  filedata[p + 1] + 256 * (filedata[p + 2] + 256 * (filedata[p + 3]
            + 256 * filedata[p + 4]))

UsedFlagAt(k) == FieldAt(k, 0)

(* The k-th 16-bit word of the file from byte offset on (k = 0 first) *)
StreamWord(offset, k) ==
    filedata[offset + 2 * k + 1] + 256 * filedata[offset + 2 * k + 2]

(* The words that the stream at offset stands for, from its k-th word on:  *)
(* escape, count, value stands for count times value, any other word for   *)
(* itself, as long as the word begins inside the range.                    *)
RECURSIVE StreamMeaning(_, _, _, _)
StreamMeaning(offset, length, escape, k) ==
    IF 2 * k >= length THEN <<>>
    ELSE IF StreamWord(offset, k) = escape
        THEN [n \in 1..StreamWord(offset, k + 1) |-> StreamWord(offset, k + 2)]
                 \o StreamMeaning(offset, length, escape, k + 3)
        ELSE <<StreamWord(offset, k)>> \o StreamMeaning(offset, length, escape, k + 1)

(* Layer n (0 walls, 1 sprites, 2 info) of slot k as its stream says *)
LayerMeaning(k, n) ==
    ToLayer(StreamMeaning(FieldAt(k, 4 + n), FieldAt(k, 7 + n), FieldAt(k, 2), 0))

LayersAsDecoded(L) ==
    IF noprocess
    THEN /\ L.walls = LayerMeaning(L.index, 0)
         /\ L.sprites = LayerMeaning(L.index, 1)
         /\ L.info = LayerMeaning(L.index, 2)
    ELSE L.walls = ZeroFirst7(LayerMeaning(L.index, 0))

(* C1: every layer of a loaded level is its byte range read as 16-bit      *)
(* little-endian words with the escape word of the level's own slot: the   *)
(* escape word followed by (count, value) gives value count times, nothing *)
(* when count is 0, every other word gives itself, in stream order.        *)
C1_DecodeBlock ==
    [][Len(levels') > Len(levels) => LayersAsDecoded(levels'[Len(levels')])]_vars

C1_Witness ==
    /\ rpc = "done"
    /\ noprocess
    /\ Len(levels) = 3
    /\ levels[1].RLEWtag = TagA /\ levels[2].RLEWtag = TagB
    /\ levels[1].info.len = 22 /\ Get(levels[1].info, 20) = 7
    /\ Get(levels[1].info, 21) = 5
    /\ levels[2].info.len = 8 /\ Get(levels[2].info, 0) = TagA
    /\ levels[3].walls.len = MapCells

(* C3: the header of slot k is read at byte offset 8 + 64 * k, for each of *)
(* the 100 slots in turn; after a used slot's layers are decoded the       *)
(* cursor is back just after that slot's header.                           *)
C3_HeaderOffsets ==
    /\ Len(hdrpos) <= NumSlots
    /\ \A k \in 1..Len(hdrpos) : hdrpos[k] = SlotOffset(k - 1)
    /\ rpc = "slots" => (Len(hdrpos) = slot /\ fpos = SlotOffset(slot))
    /\ rpc = "done" => (Len(hdrpos) = NumSlots /\ fpos = SlotOffset(NumSlots))

C3_Witness ==
    /\ rpc = "done"
    /\ Len(levels) = 3
    /\ levels[1].index = 0 /\ levels[2].index = 57 /\ levels[3].index = 99

(* C4: levels holds one Level for each slot read whose used flag is 1, in  *)
(* ascending slot order, with index the slot number; a slot with another   *)
(* used flag gives no Level and none of its layers is decoded.             *)
C4_UsedSlots ==
    /\ rpc \in {"slots", "done"} =>
          /\ Len(levels) = Cardinality({k \in 0..(slot - 1) : UsedFlagAt(k) = 1})
          /\ \A j \in 1..Len(levels) :
                /\ levels[j].index \in 0..(slot - 1)
                /\ UsedFlagAt(levels[j].index) = 1
                /\ levels[j].used = 1
                /\ j < Len(levels) => levels[j].index < levels[j + 1].index
    /\ (rpc \notin {"open", "slots", "done"} /\ hdrpos # <<>>) =>
          \/ Len(filedata) < SlotOffset(Len(hdrpos))
          \/ UsedFlagAt(Len(hdrpos) - 1) = 1

C4_Witness ==
    /\ rpc = "done"
    /\ UsedFlagAt(0) = 1 /\ UsedFlagAt(57) = 2 /\ UsedFlagAt(99) = 1
    /\ Len(levels) = 2
    /\ levels[1].index = 0 /\ levels[2].index = 99

(* C5: each layer of a loaded level has exactly 16384 entries *)
C5_LayerLength ==
    \A j \in 1..Len(levels) :
        /\ levels[j].walls.len = MapCells
        /\ levels[j].sprites.len = MapCells
        /\ levels[j].info.len = MapCells

-----------------------------------------------------------------------------
(* Claims about the post-processing of a level *)

Errors == {"IndexError", "TypeError", "ZeroDivisionError", "hang"}

First7Zero(L) == \A i \in 0..6 : Get(L, i) = 0

(* C6: after a level has been loaded with post-processing, positions 0..6  *)
(* of walls, sprites and info hold 0, whatever timers, switches and        *)
(* arch/line regions the level has.                                        *)
C6_First7Zero ==
    (pc = "done" /\ ~noprocess) =>
        First7Zero(walls) /\ First7Zero(sprites) /\ First7Zero(info)

(* a level done whose walk over a region at the border went through cell 0 *)
(* and whose timer at index 3 was found                                    *)
C6_Witness ==
    /\ pc = "done" /\ ~noprocess
    /\ song # 0
    /\ \/ \E c \in DOMAIN info.cells : info.cells[c] >= LiftBase
       \/ 5 \in DOMAIN switchdata

(* The neighbour of cell t in direction d: the cell of the map next to it, *)
(* and cell 0 when the map ends there                                      *)
Neighbour(t, d) == CellAt(t, d, 1)

(* C8: for every i in 0..14 with sprites[i] = 0x79 the timer step records  *)
(* an entry keyed by target = (info[i] div 256) + (info[i] mod 256) * 128, *)
(* with start time (info[target] div 256, info[target] mod 256) and the    *)
(* end time read the same way from the first of target's up, left, down,   *)
(* right neighbours whose info is > 0 when it is looked at (info[i] and    *)
(* info[target] are 0 by then); it zeroes sprites[i], info[i],             *)
(* info[target] and that neighbour's info.  No marker in 0..14 is passed   *)
(* over.                                                                   *)
C8_StepOk ==
    LET i == index'
        target == (Get(info, i) \div 256) + (Get(info, i) % 256) * 128
        Left(c) == IF c = i \/ c = target THEN 0 ELSE Get(info, c)
        order == <<UP, LEFT, DOWN, RIGHT>>
        holding == {k \in 1..4 : Left(Neighbour(target, order[k])) > 0}
        nb == Neighbour(target, order[Min(holding)])
    IN  /\ i \in 0..14
        /\ Get(sprites, i) = 121
        /\ \A j \in (index + 1)..(i - 1) : Get(sprites, j) # 121
        /\ holding # {}
        /\ target \in DOMAIN switchdata'
        /\ switchdata'[target] =
              TimerText(<<Get(info, target) \div 256, Get(info, target) % 256>>,
                        <<Left(nb) \div 256, Left(nb) % 256>>)
        /\ Get(sprites', i) = 0
        /\ Get(info', i) = 0
        /\ Get(info', target) = 0
        /\ Get(info', nb) = 0

InSwitchRange(v) == v > 256 /\ v < 32768
TargetOf(v) == (v \div 256) + (v % 256) * 128
TargetsUpTo(last) ==
    {TargetOf(info.cells[c]) :
        c \in {d \in DOMAIN info.cells : d >= 7 /\ d <= last /\ InSwitchRange(info.cells[d])}}

LabelNumber(n) == IF n <= 26 THEN UpperCase[n] ELSE str(n - 26)

(* C9: scanning info[7..16383] in index order, the first 26 distinct       *)
(* targets named by values v with 0x100 < v < 0x8000 are labelled 'A'..'Z' *)
(* in the order met, the later ones "1", "2", ...; a label once given      *)
(* never changes; values below index 7 give no label.                      *)
C9_StepOk ==
    LET i == index'
        v == Get(info, i)
        t == TargetOf(v)
        met == TargetsUpTo(index)
    IN  /\ \A k \in DOMAIN switchdata :
              k \in DOMAIN switchdata' /\ switchdata'[k] = switchdata[k]
        /\ InSwitchRange(v) =>
              /\ t \in DOMAIN switchdata'
              /\ t \notin met => switchdata'[t] = LabelNumber(Cardinality(met) + 1)
        /\ ~InSwitchRange(v) => DOMAIN switchdata' = DOMAIN switchdata

C9_SwitchLabels ==
    [][(pc = "scan" /\ pc' = "scan") => C9_StepOk]_vars

(* a timed cell has been referenced by a switch and the labels have gone   *)
(* past the letters                                                       *)
C9_Witness ==
    /\ pc = "scan"
    /\ switchnum >= 27
    /\ \E k \in DOMAIN switchdata : switchdata[k] = "2"

SameFrom7(L, M) ==
    /\ L.len = M.len
    /\ \A c \in (DOMAIN L.cells) \cup (DOMAIN M.cells) : c >= 7 => Get(L, c) = Get(M, c)

(* C10 as stated: the first seven positions of the three layers are zero   *)
(* from the extraction of the header fields on, so that the timer scan and *)
(* the pass over the info layer see them zeroed.                           *)
C10_ZeroedFirst ==
    (pc \in {"timers", "scan"}) =>
        First7Zero(walls) /\ First7Zero(sprites) /\ First7Zero(info)

(* C10, amended: post-processing (1) extracts the header fields and leaves *)
(* the three layers as decoded, (2) scans the indices 0..14 for timers, on *)
(* layers whose positions 0..6 still hold what was decoded, (3) makes one  *)
(* pass in increasing index over info[7..], handling at each index the     *)
(* switch reference or the arch/line region found there, and (4) zeroes    *)
(* the positions 0..6 of the three layers, last, changing nothing else.    *)
C10_Order ==
    [][/\ pc = "header" =>
            /\ pc' \in {"timers", "done", "IndexError"}
            /\ pc' = "done" <=> (noprocess /\ pc' # "IndexError")
            /\ walls' = walls /\ sprites' = sprites /\ info' = info
       /\ pc = "timers" =>
            /\ pc' \in {"timers", "scan"} \cup Errors
            /\ pc' = "timers" => index' > index /\ index' \in 0..(TimerRange - 1)
            /\ pc' = "scan" =>
                  /\ walls' = walls /\ sprites' = sprites /\ info' = info
                  /\ switchdata' = switchdata
            /\ walls' = walls
       /\ pc = "scan" =>
            /\ pc' \in {"scan", "done"} \cup Errors
            /\ pc' = "scan" => index' > index /\ index' >= FirstScanned
            /\ pc' = "done" =>
                  /\ First7Zero(walls') /\ First7Zero(sprites') /\ First7Zero(info')
                  /\ SameFrom7(walls, walls') /\ SameFrom7(sprites, sprites')
                  /\ SameFrom7(info, info')
                  /\ switchdata' = switchdata
       /\ pc \in {"done"} \cup Errors => FALSE]_vars

(* a level done whose timer marker sat at index 3, below 7, and whose end  *)
(* time was the value decoded at position 0                                *)
C10_Witness ==
    /\ pc = "done" /\ ~noprocess
    /\ song = 773
    /\ 5 \in DOMAIN switchdata
    /\ switchdata[5] = "01:02\n  to\n03:05"
    /\ First7Zero(info) /\ First7Zero(sprites)

-----------------------------------------------------------------------------
(* Claims about arch/line regions *)

(* The step of the scan that has just handled index' found an arch/line    *)
(* value there *)
RegionValue == Get(info, index')
RegionStep ==
    /\ pc = "scan" /\ pc' \in {"scan"} \cup Errors
    /\ RegionValue \in {LineValue, ArchValue}

(* Width and height as measured by walking right, then down, from index'   *)
RegionW == Walk(Cur, index', RIGHT, RegionValue, {})
RegionH == Walk(Cur, index', DOWN, RegionValue, {})

(* The measured region, w wide and h high, is a rectangle of the map *)
RegionOnMap(w, h) ==
    /\ w >= 1 /\ h >= 1
    /\ ColOf(index') + w <= MapWidth
    /\ RowOf(index') + h <= MapWidth

CandidateOrder(w, h) == IF w > h THEN <<LEFT, RIGHT, UP, DOWN>>
                        ELSE <<UP, DOWN, LEFT, RIGHT>>

(* The cell one step beyond the region in direction d, from the midpoint   *)
(* of the region's edge on that side; cell 0 when the map ends there       *)
BeyondEdge(w, h, d) ==
    LET r0 == RowOf(index')
        c0 == ColOf(index')
        r == IF d = UP THEN r0 - 1 ELSE IF d = DOWN THEN r0 + h ELSE r0 + (h \div 2)
        c == IF d = LEFT THEN c0 - 1 ELSE IF d = RIGHT THEN c0 + w ELSE c0 + (w \div 2)
    IN  IF OnMap(r, c) THEN At(r, c) ELSE 0

CandidatesHit(w, h) ==
    {k \in 1..4 : Get(sprites, BeyondEdge(w, h, CandidateOrder(w, h)[k])) = Trampoline}

Opposite(d) == (d + 2) % 4

(* The facing that the first candidate with a trampoline gives *)
FacingAway(w, h) == Opposite(CandidateOrder(w, h)[Min(CandidatesHit(w, h))])

(* The step count of the cell dr rows and dc columns from the upper-left   *)
(* cell, counted from the edge opposite the facing f, and the length of    *)
(* the region along f                                                      *)
StepAlong(w, h, f, dr, dc) ==
    IF f = RIGHT THEN dc ELSE IF f = LEFT THEN w - 1 - dc
    ELSE IF f = DOWN THEN dr ELSE h - 1 - dr
LengthAlong(w, h, f) == IF f \in {LEFT, RIGHT} THEN w ELSE h

(* The info layer with the region filled along facing f by lift(i, L) *)
Filled(w, h, f, lift(_, _)) ==
    LET r0 == RowOf(index')
        c0 == ColOf(index')
        cells == RegionCells(r0, c0, w, h)
        n == LengthAlong(w, h, f)
    IN  [len |-> info.len,
         cells |-> [c \in DOMAIN info.cells \cup cells |->
                      IF c \in cells
                      THEN LiftBase + lift(StepAlong(w, h, f, RowOf(c) - r0, ColOf(c) - c0), n)
                      ELSE info.cells[c]]]

LiftOfLine(i, n) == LineLift(i, n, height)
LiftOfArch(i, n) == IF n = 1 THEN 0 ELSE (i * (height - 64)) \div (4 * (n - 1))
LiftOfRegion(i, n) == IF RegionValue = LineValue THEN LiftOfLine(i, n) ELSE LiftOfArch(i, n)

(* C11: a region none of whose four candidate directions has a trampoline  *)
(* one step beyond its edge faces the first candidate of its order (left   *)
(* when width > height, otherwise up) and is filled, whole, along that     *)
(* facing.                                                                 *)
C11_DefaultFacing ==
    [][RegionStep =>
        \A w \in {RegionW} : \A h \in {RegionH} :
        \A first \in {CandidateOrder(w, h)[1]} :
            (/\ RegionOnMap(w, h) /\ CandidatesHit(w, h) = {}
             /\ ~(RegionValue = ArchValue /\ LengthAlong(w, h, first) = 1))
            => /\ pc' = "scan"
               /\ info' = Filled(w, h, first, LiftOfRegion)]_vars

(* a 2 x 1 line without trampoline has been handled *)
C11_Witness ==
    /\ pc = "scan"
    /\ index = At(4, 8)
    /\ Get(info, At(4, 8)) >= LiftBase /\ Get(info, At(4, 9)) >= LiftBase
    /\ Get(info, At(4, 10)) = 0 /\ Get(info, At(5, 8)) = 0
    /\ \A c \in DOMAIN sprites.cells : sprites.cells[c] # Trampoline

(* C12: an arch region (value 12) with facing f and length L along f gets  *)
(* 0xB000 + floor(i*(height-64)/(4*(L-1))) in every cell of its            *)
(* perpendicular span at step i = 0..L-1, counted from the edge opposite   *)
(* f; for every region size, L = 1 included (where i = 0, and the cells    *)
(* get 0xB000).                                                            *)
C12_ArchFill ==
    [][(RegionStep /\ RegionValue = ArchValue) =>
        \A w \in {RegionW} : \A h \in {RegionH} :
            (RegionOnMap(w, h) /\ CandidatesHit(w, h) # {})
            => /\ pc' = "scan"
               /\ info' = Filled(w, h, FacingAway(w, h), LiftOfArch)]_vars

(* a 3 x 2 arch with a trampoline to its left has been filled left to right *)
C12_Witness ==
    /\ pc = "scan"
    /\ index = At(4, 8)
    /\ height = 192
    /\ Get(sprites, At(5, 7)) = Trampoline
    /\ \A dr \in 0..1 : /\ Get(info, At(4 + dr, 8)) = LiftBase
                        /\ Get(info, At(4 + dr, 9)) = LiftBase + 16
                        /\ Get(info, At(4 + dr, 10)) = LiftBase + 32

-----------------------------------------------------------------------------
(* Claims about the failures of RTLFile *)

(* "RTL\0" and "RTC\0" *)
LevelSignatures == {<<82, 84, 76, 0>>, <<82, 84, 67, 0>>}

SignatureMalformed ==
    Len(filedata) >= 4 /\ SubSeq(filedata, 1, 4) \notin LevelSignatures

SlotHeaderTruncated == Len(filedata) < SlotOffset(NumSlots)

(* C18: the load of a level archive aborts as a whole, with no list of     *)
(* levels produced, when its 4-byte signature is malformed or when one of  *)
(* the 100 slot headers is cut short.                                      *)
C18_LoadAborts ==
    (SignatureMalformed \/ SlotHeaderTruncated) => rpc # "done"

(* a file cut short inside the header of slot 3 has made the load raise *)
C18_Witness ==
    /\ rpc = "struct.error"
    /\ SlotHeaderTruncated
    /\ ~SignatureMalformed
    /\ Len(hdrpos) = 4
    /\ fpos = Len(filedata)

(* The stream of a byte range, from its k-th word on, makes the decoder    *)
(* take bytes at or beyond the end of the range: a run whose count or      *)
(* value, or a word whose second byte, lies there                          *)
RECURSIVE StreamOverrun(_, _, _, _)
StreamOverrun(offset, length, escape, k) ==
    IF 2 * k >= length THEN FALSE
    ELSE IF StreamWord(offset, k) = escape
        THEN 2 * (k + 3) > length \/ StreamOverrun(offset, length, escape, k + 3)
        ELSE 2 * (k + 1) > length \/ StreamOverrun(offset, length, escape, k + 1)

(* C19: a level is loaded only if none of its layers' byte ranges ends in  *)
(* the middle of a run: no word taken from bytes at or beyond              *)
(* offset + length contributes to a decoded layer, and a range that ends   *)
(* after the escape word but before the count and value makes the load     *)
(* fail.                                                                   *)
C19_NoOverrun ==
    \A j \in 1..Len(levels) : \A n \in 0..2 :
        ~StreamOverrun(FieldAt(levels[j].index, 4 + n), FieldAt(levels[j].index, 7 + n),
                       FieldAt(levels[j].index, 2), 0)

(* slot 57 has a wall range of one word, the escape word, and is loaded    *)
(* with the 20 words of the run that follows the range                     *)
C19_Witness ==
    /\ rpc = "done"
    /\ noprocess
    /\ \E j \in 1..Len(levels) :
          /\ levels[j].index = 57
          /\ FieldAt(57, 7) = 2
          /\ StreamWord(FieldAt(57, 4), 0) = FieldAt(57, 2)
          /\ levels[j].walls.len = 20

-----------------------------------------------------------------------------
(* The WAD archive: WadFile.__init__ and Lump.__init__, wad.py *)

(* Lump types, wad.py:31 *)
UNLOADED == 0
FLOORCEIL == 1
SKY == 2
WALL == 3
PATCH == 4
PIC == 5
RAW == 6
FONT == 7
LBM == 8

(* None, as a value that compares with a lump *)
None == [none |-> TRUE]

(* An attribute of a lump that was not assigned, and the byte string that  *)
(* load_raw assigns, as values that compare with an image                  *)
NotSet == [notset |-> TRUE]
RawData(bytes) == [raw |-> bytes]

(* struct.unpack of 'l' and 'h' with '<': little-endian, signed *)
S32(b) == b[1] + 256 * b[2] + 65536 * b[3]
              + 16777216 * (IF b[4] >= 128 THEN b[4] - 256 ELSE b[4])
S16(b) == b[1] + 256 * (IF b[2] >= 128 THEN b[2] - 256 ELSE b[2])

(* struct.calcsize of wadheader = '<4sll' and of direntry = '<ll8s' *)
WadHeaderSize == 12
DirEntrySize == 16

(* The byte strings "STOP", "STRT", "START", "PAL" and "General" *)
StrSTOP == <<83, 84, 79, 80>>
StrSTRT == <<83, 84, 82, 84>>
StrSTART == <<83, 84, 65, 82, 84>>
StrPAL == <<80, 65, 76>>
StrGeneral == <<71, 101, 110, 101, 114, 97, 108>>

(* str.endswith, and s[:-n] for a string of at least n characters *)
endswith(s, suffix) ==
    Len(s) >= Len(suffix) /\ SubSeq(s, Len(s) - Len(suffix) + 1, Len(s)) = suffix
DropLast(s, n) == SubSeq(s, 1, Len(s) - n)

(* file.read(size) at cursor pos: a negative size reads to the end *)
ReadSize(file, pos, size) ==
    IF size < 0 THEN Read(file, pos, Len(file)) ELSE Read(file, pos, size)

(* Lump.__init__, wad.py:289-303, with the cursor at pos; id tells the     *)
(* objects apart, and is the number of the directory entry                 *)
LumpInit(file, pos, id) ==
    LET b == Read(file, pos, DirEntrySize)
    IN  IF Len(b) < DirEntrySize
        THEN [err |-> "struct.error", pos |-> pos + Len(b)]
        ELSE [err |-> "", pos |-> pos + DirEntrySize,
              lump |-> [id |-> id,
                        pos |-> S32(SubSeq(b, 1, 4)),
                        size |-> S32(SubSeq(b, 5, 8)),
                        name |-> RStrip(SubSeq(b, 9, 16)),
                        contents |-> UNLOADED,
                        data |-> NotSet]]

(* wad.py:73-80: the section that a zero-size entry of this name opens,    *)
(* with no change of section on a name that ends in "STOP"                 *)
NextBlock_nostop(blk, name) ==
    IF endswith(name, StrSTOP) THEN blk
    ELSE IF endswith(name, StrSTRT) THEN DropLast(name, 4)
    ELSE IF endswith(name, StrSTART) THEN DropLast(name, 5)
    ELSE name

(* wad.py:73-80: the section that a zero-size entry of this name opens *)
NextBlock(blk, name) ==
    IF endswith(name, StrSTOP) THEN StrGeneral
    ELSE IF endswith(name, StrSTRT) THEN DropLast(name, 4)
    ELSE IF endswith(name, StrSTART) THEN DropLast(name, 5)
    ELSE name

(* The branch taken, with the test of the name before that of the size *)
EntryKind_palfirst(templump) ==
    IF templump.name = StrPAL THEN "palette"
    ELSE IF templump.size = 0 THEN "marker"
    ELSE "lump"

(* wad.py:72, 81, 83: the branch taken for a directory entry *)
EntryKind(templump) ==
    IF templump.size = 0 THEN "marker"
    ELSE IF templump.name = StrPAL THEN "palette"
    ELSE "lump"

(* dict.get with a default *)
GetKey(d, k, default) == IF k \in DOMAIN d THEN d[k] ELSE default

(* wad.py:58-68: the header is read and the cursor put on the directory *)
WadOpen ==
    /\ wpc = "open"
    /\ LET b == Read(filedata, 0, WadHeaderSize)
       IN  IF Len(b) < WadHeaderSize
           THEN /\ wpc' = "struct.error"
                /\ fpos' = Len(b)
                /\ UNCHANGED <<wadid, numlumps, data, db, palette, block>>
           ELSE /\ wadid' = SubSeq(b, 1, 4)
                /\ numlumps' = S32(SubSeq(b, 5, 8))
                /\ LET infotable == S32(SubSeq(b, 9, 12))
                   IN  IF infotable < 0
                       \* file.seek to a negative offset
                       THEN /\ wpc' = "IOError"
                            /\ fpos' = WadHeaderSize
                            /\ UNCHANGED <<data, db, palette, block>>
                       ELSE /\ fpos' = infotable
                            /\ data' = <<>>
                            /\ db' = <<>>
                            /\ palette' = None
                            /\ block' = StrGeneral
                            /\ wpc' = IF numlumps' > 0 THEN "lumps" ELSE "palette"
    /\ UNCHANGED <<filedata, lumpnum>>

(* wad.py:69-88: one iteration of the loop over the directory *)
ReadLump ==
    /\ wpc = "lumps"
    /\ lumpnum < numlumps
    /\ LET r == LumpInit(filedata, fpos, lumpnum)
       IN  /\ fpos' = r.pos
           /\ IF r.err # ""
              THEN /\ wpc' = r.err
                   /\ UNCHANGED <<block, data, db, palette, lumpnum>>
              ELSE /\ LET templump == r.lump
                          kind == EntryKind(templump)
                      IN  /\ block' = IF kind = "marker"
                                      THEN NextBlock(block, templump.name) ELSE block
                          /\ palette' = IF kind = "palette" THEN templump ELSE palette
                          /\ data' = IF kind = "lump"
                                     THEN SetKey(data, block,
                                                 Append(GetKey(data, block, <<>>), templump))
                                     ELSE data
                          /\ db' = IF kind = "lump"
                                   THEN SetKey(db, block,
                                               SetKey(GetKey(db, block, <<>>),
                                                      templump.name, templump))
                                   ELSE db
                   /\ lumpnum' = lumpnum + 1
                   /\ wpc' = IF lumpnum + 1 < numlumps THEN "lumps" ELSE "palette"
    /\ UNCHANGED <<filedata, wadid, numlumps>>

(* wad.py:90-91 and Lump.load_raw, wad.py:631-637 *)
LoadPalette ==
    /\ wpc = "palette"
    /\ IF palette = None
       THEN wpc' = "done" /\ UNCHANGED <<palette, fpos>>
       ELSE IF palette.pos < 0
       THEN wpc' = "IOError" /\ UNCHANGED <<palette, fpos>>
       ELSE LET b == ReadSize(filedata, palette.pos, palette.size)
            IN  /\ palette' = [palette EXCEPT !.data = RawData(b), !.contents = RAW]
                /\ fpos' = palette.pos + Len(b)
                /\ wpc' = "done"
    /\ UNCHANGED <<filedata, wadid, numlumps, lumpnum, block, data, db>>

-----------------------------------------------------------------------------
(* WAD files that are loaded *)

(* little-endian bytes of a signed 32-bit number *)
SLE32(n) == <<n % 256, (n \div 256) % 256, (n \div 65536) % 256, (n \div 16777216) % 256>>

DirEntry(pos, size, name) == SLE32(pos) \o SLE32(size) \o name \o Zeros(8 - Len(name))

(* The bytes of the lumps, between the header and the directory *)
LumpBytes == <<1, 2, 3, 4, 5, 6>>
DirStart == WadHeaderSize + Len(LumpBytes)

(* The entries a directory is made of: lumps "A" and "B", the palette, a   *)
(* zero-size entry named "PAL", and the markers "WALLSTRT", "SKYSTART",    *)
(* "WALLSTOP" and "MISC"                                                   *)
EntryKinds ==
    [a        |-> DirEntry(WadHeaderSize, 3, <<65>>),
     b        |-> DirEntry(WadHeaderSize + 3, 2, <<66>>),
     pal      |-> DirEntry(WadHeaderSize, 6, StrPAL),
     pal0     |-> DirEntry(0, 0, StrPAL),
     wallstrt |-> DirEntry(0, 0, <<87, 65, 76, 76>> \o StrSTRT),
     skystart |-> DirEntry(0, 0, <<83, 75, 89>> \o StrSTART),
     wallstop |-> DirEntry(0, 0, <<87, 65, 76, 76>> \o StrSTOP),
     misc     |-> DirEntry(0, 0, <<77, 73, 83, 67>>)]

MaxLumps == 3

(* "IWAD", and four bytes that are no signature *)
WadSignatures == {<<73, 87, 65, 68>>, <<0, 0, 0, 0>>}

WadBytes(sig, count, table, kinds) ==
    sig \o SLE32(count) \o SLE32(table) \o LumpBytes
        \o Flatten([k \in 1..Len(kinds) |-> EntryKinds[kinds[k]]])

BaseDir == <<"a", "pal", "b">>

(* Every directory of up to MaxLumps entries, with a header that fits it;  *)
(* and one directory with headers that do not: a count of -1, 0, or more   *)
(* than the entries there are, a table offset that is negative, that       *)
(* leaves no room for the last entry, or beyond the end of the file; and a *)
(* file cut short inside its header                                        *)
WadFiles ==
    {WadBytes(sig, Len(kinds), DirStart, kinds) :
        sig \in WadSignatures, kinds \in SeqsUpTo(DOMAIN EntryKinds, MaxLumps)}
    \cup {WadBytes(sig, count, table, BaseDir) :
            sig \in WadSignatures, count \in {-1, 0, 2, 3, 4},
            table \in {-1, DirStart, DirStart + DirEntrySize, DirStart + 100}}
    \cup {SubSeq(WadBytes(<<73, 87, 65, 68>>, 3, DirStart, BaseDir), 1, 7)}

-----------------------------------------------------------------------------
(* SpecWad: WadFile(filename) *)

InitWad ==
    /\ filedata \in WadFiles
    /\ fpos = 0
    /\ wadid = Unset /\ numlumps = Unset /\ lumpnum = 0 /\ block = Unset
    /\ data = Unset /\ db = Unset /\ palette = Unset
    /\ wpc = "open"
    /\ lump = <<>>
    /\ noprocess = FALSE
    /\ slot = 0 /\ levels = <<>> /\ hdrpos = <<>> /\ rpc = "idle"
    /\ IdleLevel
    /\ IdleCalls

NextWad ==
    \/ WadOpen /\ UNCHANGED <<slot, levels, hdrpos, rpc, lvlvars, noprocess, dec, mv, lump>>
    \/ ReadLump /\ UNCHANGED <<slot, levels, hdrpos, rpc, lvlvars, noprocess, dec, mv, lump>>
    \/ LoadPalette /\ UNCHANGED <<slot, levels, hdrpos, rpc, lvlvars, noprocess, dec, mv, lump>>

SpecWad == InitWad /\ [][NextWad]_vars

-----------------------------------------------------------------------------
(* Claims about the sections of a WAD archive *)

(* The header fields and directory entries, as they stand in the file *)
DeclaredLumps == S32(SubSeq(filedata, 5, 8))
DirOffset == S32(SubSeq(filedata, 9, 12))
EntryAt(i) == SubSeq(filedata, DirOffset + DirEntrySize * i + 1,
                     DirOffset + DirEntrySize * (i + 1))
EntrySize(i) == S32(SubSeq(EntryAt(i), 5, 8))
EntryName(i) == RStrip(SubSeq(EntryAt(i), 9, 16))

HasSuffix(s, n, suffix) == Len(s) >= n /\ [k \in 1..n |-> s[Len(s) - n + k]] = suffix
Without(s, n) == [k \in 1..(Len(s) - n) |-> s[k]]

(* The section that is current when entry k is reached *)
RECURSIVE SectionAt(_)
SectionAt(k) ==
    IF k = 0 THEN StrGeneral
    ELSE LET name == EntryName(k - 1)
         IN  IF EntrySize(k - 1) # 0 THEN SectionAt(k - 1)
             ELSE IF HasSuffix(name, 4, StrSTOP) THEN StrGeneral
             ELSE IF HasSuffix(name, 4, StrSTRT) THEN Without(name, 4)
             ELSE IF HasSuffix(name, 5, StrSTART) THEN Without(name, 5)
             ELSE name

(* The entries before entry k that are lumps of a section *)
SectionLumps(k) ==
    {i \in 0..(k - 1) : EntrySize(i) # 0 /\ EntryName(i) # StrPAL}

Scanning == wpc \in {"lumps", "palette", "done"}

(* C14: while the directory is scanned, the current section is "General"   *)
(* at the start and changes only at zero-size entries (to "General" on a   *)
(* name ending in "STOP", to the name without the suffix on "STRT" or      *)
(* "START", to the name itself otherwise), and every non-zero entry other  *)
(* than the palette is in the list of the section that was current when it *)
(* was reached, and in no other list, the lists being in directory order.  *)
C14_Sections ==
    Scanning =>
        /\ block = SectionAt(lumpnum)
        /\ DOMAIN data = {SectionAt(i) : i \in SectionLumps(lumpnum)}
        /\ \A s \in DOMAIN data :
            /\ [j \in 1..Len(data[s]) |-> data[s][j].id]
                   = SetToSeq({i \in SectionLumps(lumpnum) : SectionAt(i) = s})
            /\ \A j \in 1..Len(data[s]) :
                /\ data[s][j].name = EntryName(data[s][j].id)
                /\ data[s][j].size = EntrySize(data[s][j].id)

(* A directory of a lump, a marker that opens "SKY" and a second lump *)
C14_Witness ==
    /\ wpc = "done"
    /\ lumpnum = 3
    /\ DOMAIN data = {StrGeneral, <<83, 75, 89>>}
    /\ EntryName(1) = <<83, 75, 89>> \o StrSTART

(* A step that scans directory entry lumpnum *)
EntryStep == wpc = "lumps" /\ lumpnum' = lumpnum + 1

InSections(d, name) == \E s \in DOMAIN d : \E j \in 1..Len(d[s]) : d[s][j].name = name
InIndexes(d, name) == \E s \in DOMAIN d : name \in DOMAIN d[s]

(* C15 as stated: an entry named exactly "PAL" becomes the palette, leaves *)
(* the current section as it is, and no list or index of a section holds   *)
(* a lump of that name.                                                    *)
C15_PalCaptured ==
    [][(EntryStep /\ EntryName(lumpnum) = StrPAL) =>
        /\ palette' # None /\ palette'.id = lumpnum
        /\ block' = block
        /\ ~InSections(data', StrPAL) /\ ~InIndexes(db', StrPAL)]_vars

(* C15, amended: an entry named exactly "PAL" of non-zero size becomes the *)
(* palette (so the last such entry is the palette of the archive), leaves  *)
(* the current section, the lists and the indexes as they are; a zero-size *)
(* entry named "PAL" is a section marker: it makes "PAL" the current       *)
(* section and leaves the palette as it is. No list or index of a section  *)
(* holds a lump named "PAL".                                               *)
C15_PalLump ==
    [][(EntryStep /\ EntryName(lumpnum) = StrPAL) =>
        /\ EntrySize(lumpnum) # 0 =>
            /\ palette' # None /\ palette'.id = lumpnum
            /\ palette'.name = StrPAL /\ palette'.size = EntrySize(lumpnum)
            /\ block' = block
        /\ EntrySize(lumpnum) = 0 =>
            /\ palette' = palette
            /\ block' = StrPAL
        /\ data' = data /\ db' = db
        /\ ~InSections(data', StrPAL) /\ ~InIndexes(db', StrPAL)]_vars

(* The palette was captured, and a later zero-size "PAL" opened a section *)
C15_Witness ==
    /\ wpc = "done"
    /\ palette # None /\ palette.contents = RAW
    /\ StrPAL \in DOMAIN data
    /\ ~InSections(data, StrPAL)

(* C16: after WadFile is built, no list of a section has two lumps of the  *)
(* same name, and the index of the section maps each name to the one lump  *)
(* of the list that has it.                                                *)
C16_UniqueNames ==
    wpc = "done" =>
        /\ DOMAIN db = DOMAIN data
        /\ \A s \in DOMAIN data :
            /\ \A j, k \in 1..Len(data[s]) :
                data[s][j].name = data[s][k].name => j = k
            /\ DOMAIN db[s] = {data[s][j].name : j \in 1..Len(data[s])}
            /\ \A j \in 1..Len(data[s]) : db[s][data[s][j].name] = data[s][j]

(* Two lumps named "A" in one section *)
C16_Witness ==
    /\ wpc = "done"
    /\ \E s \in DOMAIN data : \E j, k \in 1..Len(data[s]) :
        j < k /\ data[s][j].name = data[s][k].name
                           /\ db[s][data[s][j].name] = data[s][k]

(* "IWAD" and "PWAD" *)
ValidSignatures == {<<73, 87, 65, 68>>, <<80, 87, 65, 68>>}

SignatureInvalid == Len(filedata) >= 4 /\ SubSeq(filedata, 1, 4) \notin ValidSignatures

DirectoryBeyondEnd ==
    /\ Len(filedata) >= WadHeaderSize
    /\ \/ DirOffset > Len(filedata)
       \/ DirOffset + DirEntrySize * DeclaredLumps > Len(filedata)

(* C17: no WadFile with sections is built from a file whose signature is   *)
(* no archive signature, or whose directory (its offset, or its offset     *)
(* plus 16 bytes for each declared lump) is beyond the end of the file.    *)
C17_LoadFails ==
    (SignatureInvalid \/ DirectoryBeyondEnd) => ~(wpc = "done" /\ DOMAIN data # {})

(* A file with a signature of four zero bytes, built with a section *)
C17_Witness ==
    /\ wpc = "done"
    /\ SignatureInvalid /\ ~DirectoryBeyondEnd
    /\ wadid = <<0, 0, 0, 0>>
    /\ StrGeneral \in DOMAIN data

-----------------------------------------------------------------------------
(* Lump.load_patch, wad.py:497-575 *)

(* struct.calcsize of patch = '<hhhhh', and the limit of the sanity checks *)
PatchHeaderSize == 10
MaxPatchSize == 320

(* The opacity of a translucent and of a solid pixel, and the byte that    *)
(* marks a translucent run and the one that ends a column                  *)
Translucent == 128
Solid == 255
TransMarker == 254
ColumnEnd == 255

(* max of two numbers *)
max(a, b) == IF a >= b THEN a ELSE b

(* list[i] for a list of n items: the position in 1..n, 0 for IndexError *)
ListIndex(n, i) ==
    IF 0 <= i /\ i < n THEN i + 1
    ELSE IF -n <= i /\ i < 0 THEN n + i + 1
    ELSE 0

(* struct.unpack of '<nH' on 2*n bytes *)
Words16(b) == [k \in 1..(Len(b) \div 2) |-> b[2 * k - 1] + 256 * b[2 * k]]

(* A lump as the directory describes it, with the attributes that the      *)
(* loaders assign not yet there                                            *)
NewLump(id, pos, size, name) ==
    [id |-> id, pos |-> pos, size |-> size, name |-> name,
     contents |-> UNLOADED, data |-> NotSet, mask |-> NotSet,
     origsize |-> Unset, width |-> Unset, height |-> Unset,
     leftoffset |-> Unset, topoffset |-> Unset, translevel |-> Unset,
     actwidth |-> Unset, actheight |-> Unset, collumnofs |-> Unset,
     orgx |-> Unset, orgy |-> Unset, colour |-> Unset, widths |-> Unset,
     charoffs |-> Unset, paldata |-> Unset]

(* Image.new(mode, size) followed by putdata(pixels) *)
Image(mode, size, pixels) == [mode |-> mode, size |-> size, pixels |-> pixels]

(* wad.py:508-511 *)
SanityFails(l) ==
    \/ l.origsize > MaxPatchSize \/ l.width > MaxPatchSize
    \/ l.height > MaxPatchSize \/ l.width > l.origsize
    \/ -l.topoffset > l.origsize
    \/ -l.leftoffset > l.origsize

(* wad.py:556, 560: the place of pixel (x, y) in tempdata and tempmask *)
PixelIndex(l, x, y) == (y - l.topoffset) * l.actwidth + (x - l.leftoffset)

(* A variant that makes every pixel it writes solid *)
SetPixel_solid(t, i, value, opacity) ==
    LET k == ListIndex(Len(t.tempdata), i)
    IN  IF t.err # "" THEN t
        ELSE IF k = 0 THEN [t EXCEPT !.err = "IndexError"]
        ELSE [t EXCEPT !.tempdata[k] = value, !.tempmask[k] = 255]

(* wad.py:556-557, 560-561: tempdata[i] and tempmask[i] are assigned *)
SetPixel(t, i, value, opacity) ==
    LET k == ListIndex(Len(t.tempdata), i)
    IN  IF t.err # "" THEN t
        ELSE IF k = 0 THEN [t EXCEPT !.err = "IndexError"]
        ELSE [t EXCEPT !.tempdata[k] = value, !.tempmask[k] = opacity]

(* wad.py:555-557, 559-561: the pixels of one run, from pixel k on; idx    *)
(* is the place of the run's data in coldata                               *)
RECURSIVE FillRun(_, _, _, _, _, _, _, _, _)
FillRun(t, l, x, coldata, idx, ystart, numpix, k, translucent) ==
    IF t.err # "" \/ k >= numpix THEN t
    ELSE IF translucent
    THEN FillRun(SetPixel(t, PixelIndex(l, x, ystart + k), 0, Translucent),
                 l, x, coldata, idx, ystart, numpix, k + 1, translucent)
    ELSE IF idx + k >= Len(coldata) THEN [t EXCEPT !.err = "IndexError"]
    ELSE FillRun(SetPixel(t, PixelIndex(l, x, ystart + k),
                          coldata[idx + k + 1], Solid),
                 l, x, coldata, idx, ystart, numpix, k + 1, translucent)

(* wad.py:546-563: the runs of one column, from place idx of coldata on *)
RECURSIVE DecodeRuns(_, _, _, _, _)
DecodeRuns(t, l, x, coldata, idx) ==
    IF t.err # "" \/ ~(idx < Len(coldata) - 1) THEN t
    ELSE LET ystart == coldata[idx + 1]
             numpix == coldata[idx + 2]
             next == idx + 2
         IN  IF ystart = ColumnEnd THEN t
             ELSE IF l.translevel # <<>> /\ next >= Len(coldata)
             THEN [t EXCEPT !.err = "IndexError"]
             ELSE IF l.translevel # <<>> /\ coldata[next + 1] = TransMarker
             THEN DecodeRuns(FillRun(t, l, x, coldata, next, ystart, numpix, 0, TRUE),
                             l, x, coldata, next + 1)
             ELSE DecodeRuns(FillRun(t, l, x, coldata, next, ystart, numpix, 0, FALSE),
                             l, x, coldata, next + numpix)

(* wad.py:537-563: the columns from column x on *)
RECURSIVE DecodeColumns(_, _, _, _)
DecodeColumns(t, l, file, x) ==
    IF t.err # "" \/ x >= Len(l.collumnofs) THEN t
    ELSE LET offset == l.collumnofs[x + 1]
             colsize == IF x = Len(l.collumnofs) - 1
                        THEN l.size - offset
                        ELSE l.collumnofs[x + 2] - offset
             coldata == ReadSize(file, l.pos + offset, colsize)
             cur == l.pos + offset + Len(coldata)
         IN  IF colsize < 0 \/ Len(coldata) < colsize
             THEN [t EXCEPT !.err = "struct.error", !.cur = cur]
             ELSE DecodeColumns(DecodeRuns([t EXCEPT !.cur = cur], l, x, coldata, 0),
                                l, file, x + 1)

(* wad.py:502-572: the body of the try statement, for the file with its    *)
(* cursor at cur0. The result holds the exception raised (or ""), the lump *)
(* with the attributes assigned up to there, and the cursor. A translevel  *)
(* of None is <<>>, a translevel t is <<t>>.                               *)
TryPatch(file, cur0, l0) ==
    LET pos == seek(cur0, l0.pos)
        hdr == Read(file, pos, PatchHeaderSize)
        l1 == [l0 EXCEPT !.origsize = S16(SubSeq(hdr, 1, 2)),
                         !.width = S16(SubSeq(hdr, 3, 4)),
                         !.height = S16(SubSeq(hdr, 5, 6)),
                         !.leftoffset = S16(SubSeq(hdr, 7, 8)),
                         !.topoffset = S16(SubSeq(hdr, 9, 10))]
        tl == Read(file, pos + PatchHeaderSize, 2)
        istrans == U16(tl) # PatchHeaderSize + l1.width * 2
        cur2 == IF istrans THEN pos + PatchHeaderSize + 2 ELSE pos + PatchHeaderSize
        l3 == [l1 EXCEPT !.translevel = IF istrans THEN <<U16(tl)>> ELSE <<>>,
                         !.actwidth = max(l1.width - l1.leftoffset, l1.origsize),
                         !.actheight = max(l1.height - l1.topoffset, l1.origsize)]
        n == max(l3.actwidth * l3.actheight, 0)
        ofs == ReadSize(file, cur2, l1.width * 2)
        l4 == [l3 EXCEPT !.collumnofs = Words16(ofs)]
        t == DecodeColumns([err |-> "", tempdata |-> Zeros(n), tempmask |-> Zeros(n),
                            cur |-> cur2 + Len(ofs)], l4, file, 0)
    IN  IF pos < 0 THEN [err |-> "IOError", lump |-> l0, cur |-> cur0]
        ELSE IF Len(hdr) < PatchHeaderSize
        THEN [err |-> "struct.error", lump |-> l0, cur |-> pos + Len(hdr)]
        ELSE IF SanityFails(l1)
        THEN [err |-> "", lump |-> l1, cur |-> pos + PatchHeaderSize]
        ELSE IF Len(tl) < 2
        THEN [err |-> "struct.error", lump |-> l1,
              cur |-> pos + PatchHeaderSize + Len(tl)]
        ELSE IF l1.width < 0 \/ Len(ofs) < l1.width * 2
        THEN [err |-> "struct.error", lump |-> l3, cur |-> cur2 + Len(ofs)]
        ELSE IF t.err # ""
        THEN [err |-> t.err, lump |-> l4, cur |-> t.cur]
        ELSE [err |-> "",
              lump |-> [l4 EXCEPT
                  !.data = Image("P", <<l4.actwidth, l4.actheight>>, t.tempdata),
                  !.mask = Image("L", <<l4.actwidth, l4.actheight>>, t.tempmask),
                  !.contents = PATCH],
              cur |-> t.cur]

(* An except clause that raises the exception again *)
Except_raise(err) == err

(* wad.py:574-575: "except: pass"; what the call raises for an exception   *)
(* of the try body                                                         *)
Except(err) == ""

-----------------------------------------------------------------------------
(* Lump.load_pic, wad.py:450-484, and Lump.load_raw, wad.py:631-637 *)

(* struct.calcsize of largepic = '<hhhh' and of smallpic = '<BB' *)
LargePicSize == 8
SmallPicSize == 2

(* Image.rotate(angle) *)
rotate(im, angle) ==
    [mode |-> im.mode, size |-> im.size, pixels |-> im.pixels, angle |-> angle]

(* A variant that copies the bytes in the order they are read *)
Deinterleave_plain(tempread) == tempread

(* wad.py:477-479: the two loops from their m-th iteration on, phase being *)
(* m / phasesize and pos being m % phasesize                               *)
RECURSIVE Phases(_, _, _)
Phases(tempdata, tempread, m) ==
    LET phasesize == Len(tempread) \div 4
        phase == m \div phasesize
        pos == m % phasesize
    IN  IF m >= 4 * phasesize THEN tempdata
        ELSE Phases([tempdata EXCEPT ![pos * 4 + phase + 1] =
                                         tempread[phasesize * phase + pos + 1]],
                    tempread, m + 1)

(* wad.py:473-479: tempdata = [0] * width * height, filled by the loops *)
Deinterleave(tempread) == Phases(Zeros(Len(tempread)), tempread, 0)

(* The tests of wad.py:458 and 470, with the small test made first *)
PicPath_smallfirst(lwidth, lheight, swidth, sheight, size) ==
    IF swidth * sheight + 2 <= size /\ size <= swidth * sheight + 4 THEN "small"
    ELSE IF lwidth * lheight + LargePicSize = size THEN "large"
    ELSE "none"

(* wad.py:458 and 470: the format that is decoded *)
PicPath(lwidth, lheight, swidth, sheight, size) ==
    IF lwidth * lheight + LargePicSize = size THEN "large"
    ELSE IF swidth * sheight + 2 <= size /\ size <= swidth * sheight + 4 THEN "small"
    ELSE "none"

(* The call, for the file with its cursor at cur0: the exception raised    *)
(* (or ""), the lump and the cursor. Image.fromstring raises on a negative *)
(* size and on too few bytes.                                              *)
load_pic(file, cur0, l0) ==
    LET pos == seek(cur0, l0.pos)
        hdr == Read(file, pos, LargePicSize)
        lwidth == S16(SubSeq(hdr, 1, 2))
        lheight == S16(SubSeq(hdr, 3, 4))
        body == ReadSize(file, pos + LargePicSize, l0.size - LargePicSize)
        swidth == hdr[1] * 4
        sheight == hdr[2]
        n == swidth * sheight
        tempread == Read(file, pos + SmallPicSize, n)
        path == PicPath(lwidth, lheight, swidth, sheight, l0.size)
    IN  IF pos < 0 THEN [err |-> "IOError", lump |-> l0, cur |-> cur0]
        ELSE IF Len(hdr) < LargePicSize
        THEN [err |-> "struct.error", lump |-> l0, cur |-> pos + Len(hdr)]
        ELSE IF path = "large"
        THEN IF lwidth < 0 \/ lheight < 0 \/ Len(body) < lwidth * lheight
             THEN [err |-> "ValueError", lump |-> l0,
                   cur |-> pos + LargePicSize + Len(body)]
             ELSE [err |-> "",
                   lump |-> [l0 EXCEPT
                       !.data = rotate(Image("P", <<lheight, lwidth>>, body), -90),
                       !.contents = PIC],
                   cur |-> pos + LargePicSize + Len(body)]
        ELSE IF path = "small"
        THEN IF Len(tempread) < n
             THEN [err |-> "struct.error", lump |-> l0,
                   cur |-> pos + SmallPicSize + Len(tempread)]
             ELSE [err |-> "",
                   lump |-> [l0 EXCEPT
                       !.data = Image("P", <<swidth, sheight>>, Deinterleave(tempread)),
                       !.contents = PIC],
                   cur |-> pos + SmallPicSize + n]
        ELSE [err |-> "", lump |-> l0, cur |-> pos + SmallPicSize]

load_raw(file, cur0, l0) ==
    LET pos == seek(cur0, l0.pos)
        bytes == ReadSize(file, pos, l0.size)
    IN  IF pos < 0 THEN [err |-> "IOError", lump |-> l0, cur |-> cur0]
        ELSE [err |-> "",
              lump |-> [l0 EXCEPT !.data = RawData(bytes), !.contents = RAW],
              cur |-> pos + Len(bytes)]

-----------------------------------------------------------------------------
(* WadFile.loadall, wad.py:167-174, for one lump of a section *)

(* Where loadall is after a call that left the lump as l *)
AfterCall(err, l, then) ==
    IF err # "" THEN err ELSE IF l.contents = UNLOADED THEN then ELSE "loaded"

(* wad.py:169-170 *)
CallLoadPatch ==
    /\ wpc = "load_patch"
    /\ lump.contents = UNLOADED
    /\ LET r == TryPatch(filedata, fpos, lump)
       IN  /\ lump' = r.lump
           /\ fpos' = r.cur
           /\ wpc' = AfterCall(Except(r.err), r.lump, "load_pic")
    /\ UNCHANGED filedata

(* wad.py:171-172 *)
CallLoadPic ==
    /\ wpc = "load_pic"
    /\ LET r == load_pic(filedata, fpos, lump)
       IN  /\ lump' = r.lump
           /\ fpos' = r.cur
           /\ wpc' = AfterCall(r.err, r.lump, "load_raw")
    /\ UNCHANGED filedata

(* wad.py:173-174 *)
CallLoadRaw ==
    /\ wpc = "load_raw"
    /\ LET r == load_raw(filedata, fpos, lump)
       IN  /\ lump' = r.lump
           /\ fpos' = r.cur
           /\ wpc' = AfterCall(r.err, r.lump, "loaded")
    /\ UNCHANGED filedata

-----------------------------------------------------------------------------
(* Lumps that are loaded *)

SLE16(n) == <<n % 256, (n \div 256) % 256>>

(* The columns a patch is made of: one pixel at row 0, one at row 1, two   *)
(* pixels, a translucent run of two, a run longer than its data, a run at  *)
(* a row outside the canvas, no run, and no byte at all; a translucent run *)
(* of two followed by a run of one pixel at row 1, and a run of one pixel  *)
(* followed by a translucent run at the same row                           *)
Columns ==
    {<<0, 1, 7, ColumnEnd>>, <<1, 1, 9, ColumnEnd>>, <<0, 2, 5, 6, ColumnEnd>>,
     <<0, 2, TransMarker, ColumnEnd>>, <<0, 3, 5>>, <<5, 1, 7, ColumnEnd>>,
     <<ColumnEnd, 0>>, <<>>,
     <<0, 2, TransMarker, 1, 1, 9, ColumnEnd>>,
     <<0, 1, 7, 0, 1, TransMarker, ColumnEnd>>}

MaxWidth == 2

RECURSIVE Offsets(_, _)
Offsets(cols, first) ==
    IF cols = <<>> THEN <<>>
    ELSE <<first>> \o Offsets(Tail(cols), first + Len(cols[1]))

(* The bytes of a patch: header, translevel if there is one, collumnofs    *)
(* and columns                                                             *)
PatchBytes(origsz, w, h, left, top, trans, cols) ==
    LET first == PatchHeaderSize + 2 * w + 2 * Len(trans)
        ofs == Offsets(cols, first)
    IN  SLE16(origsz) \o SLE16(w) \o SLE16(h) \o SLE16(left) \o SLE16(top)
            \o Flatten([k \in 1..Len(trans) |-> LE16(trans[k])])
            \o Flatten([k \in 1..Len(ofs) |-> LE16(ofs[k])])
            \o Flatten(cols)

(* The lump is at LumpPos in the file; bytes of another lump follow it *)
LumpPos == 3
Before == <<9, 9, 9>>
After == Zeros(LargePicSize)

BaseColumns == <<<<0, 1, 7, ColumnEnd>>, <<1, 1, 9, ColumnEnd>>>>
BasePatch == PatchBytes(2, 2, 2, 0, 0, <<>>, BaseColumns)

(* A large picture of 2 by 2, a small one of 4 by 1, eight bytes that are  *)
(* a large picture of 257 by 0 and a small one of 4 by 1 as well, and      *)
(* three bytes                                                             *)
MaxQuads == 2

(* A small picture of 4 * w4 by h whose payload bytes are 1, 2, 3, ... *)
SmallPicOf(w4, h) == <<w4, h>> \o [k \in 1..(4 * w4 * h) |-> k] \o <<0, 0>>

LargePic == SLE16(2) \o SLE16(2) \o SLE16(0) \o SLE16(0) \o <<1, 2, 3, 4>>
SmallPic == <<1, 1, 1, 2, 3, 4, 0, 0>>
EitherPic == <<1, 1, 0, 0, 1, 2, 3, 4>>
ThreeBytes == <<1, 1, 1>>

(* A file and the directory entry of the lump in it. The patches with      *)
(* every choice of columns; the patches with header fields that pass and   *)
(* that fail the sanity checks; a patch in a file that ends inside it; a   *)
(* patch whose directory entry has another size or a negative offset;      *)
(* pictures and raw bytes; and pictures in a file that ends inside them    *)
LoadInputs ==
    {[file |-> Before \o p \o After, pos |-> LumpPos, size |-> Len(p)] :
        p \in {PatchBytes(max(Len(cols), 2), Len(cols), 2, 0, 0, trans, cols) :
                cols \in SeqsUpTo(Columns, MaxWidth), trans \in {<<>>, <<3>>}}}
    \cup {[file |-> Before \o p \o After, pos |-> LumpPos, size |-> Len(p)] :
        p \in {PatchBytes(origsz, 2, h, left, top, <<>>, BaseColumns) :
                origsz \in {2, 1, -1, MaxPatchSize + 1}, h \in {2, MaxPatchSize + 1},
                left \in {0, 1, -1, -3}, top \in {0, 1, -3}}}
    \cup {[file |-> SubSeq(Before \o BasePatch, 1, cut), pos |-> LumpPos,
           size |-> Len(BasePatch)] : cut \in 0..(LumpPos + Len(BasePatch))}
    \cup {[file |-> Before \o BasePatch \o After, pos |-> pos, size |-> size] :
            pos \in {LumpPos, -1},
            size \in {Len(BasePatch) - 1, Len(BasePatch) + 1, SmallPicSize, -1}}
    \cup {[file |-> Before \o p \o rest, pos |-> LumpPos, size |-> Len(p)] :
            p \in {LargePic, SmallPic, EitherPic, ThreeBytes}
                    \cup {SmallPicOf(w4, h) : w4 \in 1..MaxQuads, h \in 1..2},
            rest \in {After, <<>>}}
    \cup {[file |-> SubSeq(Before \o p, 1, LumpPos + Len(p) - 2), pos |-> LumpPos,
           size |-> Len(p)] : p \in {LargePic, SmallPic}}

-----------------------------------------------------------------------------
(* SpecLoad: the loading of one lump by WadFile.loadall; the palette is    *)
(* loaded, and the calls of Image succeed                                  *)

InitLoad ==
    /\ \E i \in LoadInputs :
        /\ filedata = i.file
        /\ lump = NewLump(0, i.pos, i.size, <<65>>)
    /\ fpos \in {0, Len(filedata)}
    /\ wpc = "load_patch"
    /\ wadid = <<>> /\ numlumps = 0 /\ lumpnum = 0 /\ block = <<>>
    /\ data = <<>> /\ db = <<>> /\ palette = <<>>
    /\ noprocess = FALSE
    /\ slot = 0 /\ levels = <<>> /\ hdrpos = <<>> /\ rpc = "idle"
    /\ IdleLevel
    /\ IdleCalls

loadvars == <<wadid, numlumps, lumpnum, block, data, db, palette,
              slot, levels, hdrpos, rpc, lvlvars, noprocess, dec, mv>>

NextLoad ==
    \/ CallLoadPatch /\ UNCHANGED loadvars
    \/ CallLoadPic /\ UNCHANGED loadvars
    \/ CallLoadRaw /\ UNCHANGED loadvars

SpecLoad == InitLoad /\ [][NextLoad]_vars

-----------------------------------------------------------------------------
(* Claims about the failures of load_patch *)

(* The patch header of the lump, as it stands in the file *)
PatchHeaderRead == lump.pos >= 0 /\ Len(filedata) >= lump.pos + PatchHeaderSize
PatchField(k) == S16(SubSeq(filedata, lump.pos + 2 * k + 1, lump.pos + 2 * k + 2))

ChecksFail ==
    /\ PatchHeaderRead
    /\ \/ PatchField(0) > 320 \/ PatchField(1) > 320 \/ PatchField(2) > 320
       \/ PatchField(1) > PatchField(0)
       \/ -PatchField(4) > PatchField(0)
       \/ -PatchField(3) > PatchField(0)

NoPayload(l) == l.data = NotSet /\ l.mask = NotSet

(* C20: a call of load_patch returns without an exception; the lump is     *)
(* then either a patch with data and mask, or it is still unloaded with    *)
(* neither data nor mask set, and loadall goes on to its next statement,   *)
(* the call of load_pic. A header that fails a sanity check gives the      *)
(* second outcome.                                                         *)
C20_PatchNeverRaises ==
    [][wpc = "load_patch" =>
        /\ wpc' \in {"load_pic", "loaded"}
        /\ wpc' = "loaded" =>
            /\ lump'.contents = PATCH
            /\ ~NoPayload(lump')
        /\ wpc' = "load_pic" =>
            /\ lump'.contents = UNLOADED
            /\ NoPayload(lump')
        /\ ChecksFail => wpc' = "load_pic"]_vars

(* A patch of one column whose decoding failed after the column was read *)
C20_Witness ==
    /\ wpc = "load_pic"
    /\ PatchHeaderRead /\ ~ChecksFail
    /\ lump.contents = UNLOADED /\ NoPayload(lump)
    /\ lump.width = 1
    /\ fpos > lump.pos + PatchHeaderSize + 2

-----------------------------------------------------------------------------
(* Claims about nextwall, nextinfo and nextsprite *)

(* The map has a cell n steps from cell c in direction d *)
HasCell(c, d, n) ==
    OnMap(RowOf(c) + (IF d = DOWN THEN n ELSE IF d = UP THEN -n ELSE 0),
          ColOf(c) + (IF d = RIGHT THEN n ELSE IF d = LEFT THEN -n ELSE 0))

(* Cells in the corners, on the borders and inside the map *)
ProbeCells == {0, 5, MapWidth - 1, MapWidth, At(4, 8), At(MapWidth - 1, 0), MapCells - 1}

(* The points at which the three functions are called: inside              *)
(* interpret_info, and on a level that has been loaded                     *)
Callable == pc \in {"timers", "scan", "done"}

(* C26: whenever nextwall, nextinfo or nextsprite can be called, and the   *)
(* map has no cell at the given distance in the given direction, they      *)
(* return 0; also inside interpret_info and on a level loaded with         *)
(* noprocess.                                                              *)
C26_NoCellGivesZero ==
    Callable =>
        \A c \in ProbeCells, d \in {RIGHT, UP, LEFT, DOWN}, n \in 1..2 :
            ~HasCell(c, d, n) =>
                /\ nextwall(Cur, c, d, n) = 0
                /\ nextinfo(Cur, c, d, n) = 0
                /\ nextsprite(Cur, c, d, n) = 0

(* A level loaded with noprocess: above cell 5 of row 0 nextinfo gives the *)
(* song number and nextsprite the height code                              *)
C26_Witness ==
    /\ pc = "done" /\ noprocess
    /\ ~HasCell(5, UP, 1)
    /\ nextinfo(Cur, 5, UP, 1) = song /\ song # 0
    /\ nextsprite(Cur, 5, UP, 1) # 0

-----------------------------------------------------------------------------
(* Claims about the end of interpret_info *)

(* The index that the next step of the scan handles *)
NextScanned == Min(ScanStops(Cur, index))

RegionAhead ==
    /\ pc = "scan" /\ ScanStops(Cur, index) # {}
    /\ Get(info, NextScanned) \in {LineValue, ArchValue}

(* C27: interpret_info ends on every level: the walk to the right and the  *)
(* walk down that measure a region end after at most 128 steps each, also  *)
(* when they leave the map and position 0 holds the region's value.        *)
C27_WalkEnds ==
    /\ pc # "hang"
    /\ RegionAhead =>
        \A i \in {NextScanned} :
            /\ Walk(Cur, i, RIGHT, Get(info, i), {}) \in 0..MapWidth
            /\ Walk(Cur, i, DOWN, Get(info, i), {}) \in 0..MapWidth

(* The walk to the right from index 7 of a level whose row 0 holds the     *)
(* region value in all of its cells came back to index 7                   *)
C27_Witness ==
    /\ pc = "hang"
    /\ index = FirstScanned
    /\ song = Get(info, FirstScanned)
    /\ \A c \in 0..(MapWidth - 1) : Get(info, c) = song


(* C28: on every level post-processing ends without an exception, no list  *)
(* is indexed outside 0..16383, and every key of the switch/timer table is *)
(* a cell index in 0..16383.                                               *)
C28_NoException ==
    /\ pc \notin {"IndexError", "TypeError", "ZeroDivisionError"}
    /\ \A k \in DOMAIN switchdata : k \in 0..(MapCells - 1)

(* A timer marker at index 3 whose info value 0xFFFF names position 32895 *)
C28_Witness ==
    /\ pc = "IndexError"
    /\ index = 3
    /\ Get(sprites, 3) = TimerMarker
    /\ switchindex(Get(info, 3)) > MapCells - 1


-----------------------------------------------------------------------------
(* Claims about what arch/line processing leaves alone *)

(* C29: the step that processes an arch or a line leaves walls and sprites *)
(* as they are, and changes no info cell at an index >= 7 other than cells *)
(* that held the region's value when the region was found.                 *)
C29_RegionFrame ==
    [][RegionStep =>
        /\ walls' = walls
        /\ sprites' = sprites
        /\ \A c \in (DOMAIN info.cells \cup DOMAIN info'.cells) :
            (c >= FirstScanned /\ Get(info', c) # Get(info, c))
                => Get(info, c) = RegionValue]_vars

(* A region is about to be processed whose rectangle, as wide as its first *)
(* row and as high as its first column, has a cell with another value      *)
C29_Witness ==
    /\ RegionAhead
    /\ \E c \in DOMAIN info.cells :
        /\ c > NextScanned
        /\ ColOf(c) \in ColOf(NextScanned)..(ColOf(NextScanned) + 2)
        /\ RowOf(c) \in RowOf(NextScanned)..(RowOf(NextScanned) + 2)
        /\ info.cells[c] \notin {LineValue, ArchValue}
        /\ Get(info, c - 1) = Get(info, NextScanned)
        /\ Get(info, c - MapWidth) = Get(info, NextScanned)


-----------------------------------------------------------------------------
(* Claims about the pixels of a patch *)

(* load_patch has just decoded the lump as a patch *)
PatchDecoded == wpc = "loaded" /\ lump.contents = PATCH

(* The bytes of column x of the decoded patch, as they stand in the file *)
ColumnOf(x) ==
    LET from == lump.pos + lump.collumnofs[x + 1]
        to == IF x + 1 = Len(lump.collumnofs)
              THEN lump.pos + lump.size
              ELSE lump.pos + lump.collumnofs[x + 2]
    IN  SubSeq(filedata, from + 1, to)

(* The runs of a column from its byte number p on: start row, count, and   *)
(* the pixel bytes, or <<>> with marker TRUE for a run of the marker byte  *)
RECURSIVE RunsOf(_, _, _)
RunsOf(bytes, p, enabled) ==
    IF p + 2 > Len(bytes) THEN <<>>
    ELSE IF bytes[p + 1] = 255 THEN <<>>
    ELSE LET start == bytes[p + 1]
             count == bytes[p + 2]
         IN  IF enabled /\ p + 3 <= Len(bytes) /\ bytes[p + 3] = 254
             THEN << [start |-> start, count |-> count, marker |-> TRUE,
                      bytes |-> <<>>] >> \o RunsOf(bytes, p + 3, enabled)
             ELSE << [start |-> start, count |-> count, marker |-> FALSE,
                      bytes |-> SubSeq(bytes, p + 3, p + 2 + count)] >>
                     \o RunsOf(bytes, p + 2 + count, enabled)

(* Value and opacity of row y after the runs have been processed in order: *)
(* those of the last run that covers the row, <<0, 0>> when there is none  *)
PixelAfter(runs, y) ==
    LET covering == {k \in 1..Len(runs) :
                        y >= runs[k].start /\ y < runs[k].start + runs[k].count}
        last == CHOOSE k \in covering : \A j \in covering : j <= k
    IN  IF covering = {} THEN <<0, 0>>
        ELSE IF runs[last].marker THEN <<0, 128>>
        ELSE <<runs[last].bytes[y - runs[last].start + 1], 255>>

(* The patch is drawn with its origin in the canvas *)
OriginInside == lump.leftoffset <= 0 /\ lump.topoffset <= 0

(* C21: in a decoded patch every pixel has opacity 0, 128 or 255, and a    *)
(* pixel of opacity 0 or 128 has the value 0; the pixel of column x and    *)
(* row y has the value and opacity that the runs of the column give it     *)
(* when they are processed in order up to the run that starts at 255: 0    *)
(* and 128 for a run of the marker 254 of a patch with translucency (one   *)
(* byte consumed), the literal byte and 255 for any other run (count bytes *)
(* consumed), the later run winning.                                       *)
C21_Runs ==
    PatchDecoded =>
        /\ \A k \in 1..Len(lump.mask.pixels) :
            /\ lump.mask.pixels[k] \in {0, 128, 255}
            /\ lump.mask.pixels[k] \in {0, 128} => lump.data.pixels[k] = 0
        /\ OriginInside =>
            \A x \in 0..(lump.width - 1) :
                \A runs \in {RunsOf(ColumnOf(x), 0, lump.translevel # <<>>)} :
                    \A y \in 0..(lump.actheight + lump.topoffset - 1) :
                        \A k \in {(y - lump.topoffset) * lump.actwidth
                                      + (x - lump.leftoffset) + 1} :
                            <<lump.data.pixels[k], lump.mask.pixels[k]>>
                                = PixelAfter(runs, y)

(* A patch with translucency whose column 0 has a run of the marker over   *)
(* rows 0 and 1 and then a run of the pixel 9 at row 1                     *)
C21_Witness ==
    /\ PatchDecoded /\ OriginInside
    /\ lump.translevel # <<>>
    /\ lump.width >= 1
    /\ ColumnOf(0) = <<0, 2, 254, 1, 1, 9, 255>>
    /\ lump.mask.pixels[1] = 128 /\ lump.data.pixels[1] = 0
    /\ lump.mask.pixels[lump.actwidth + 1] = 255
    /\ lump.data.pixels[lump.actwidth + 1] = 9


(* What the runs give the canvas pixel in column cx and row cy: the pixel  *)
(* of column cx + leftoffset and row cy + topoffset of the patch           *)
CanvasPixel(cx, cy) ==
    LET x == cx + lump.leftoffset
        y == cy + lump.topoffset
    IN  IF x >= 0 /\ x < lump.width /\ y >= 0
        THEN PixelAfter(RunsOf(ColumnOf(x), 0, lump.translevel # <<>>), y)
        ELSE <<0, 0>>

(* C30: the canvas of a decoded patch is max(width - leftoffset, origsize) *)
(* by max(height - topoffset, origsize), and the pixel written for column  *)
(* x and row y is the canvas pixel (x - leftoffset, y - topoffset): no     *)
(* canvas pixel holds anything but what the runs give its own position, so *)
(* a run position outside the canvas modifies no pixel.                    *)
C30_Canvas ==
    PatchDecoded =>
        /\ lump.data.size = <<max(lump.width - lump.leftoffset, lump.origsize),
                              max(lump.height - lump.topoffset, lump.origsize)>>
        /\ lump.mask.size = lump.data.size
        /\ Len(lump.data.pixels) = lump.data.size[1] * lump.data.size[2]
        /\ Len(lump.mask.pixels) = Len(lump.data.pixels)
        /\ \A k \in 1..Len(lump.data.pixels) :
            <<lump.data.pixels[k], lump.mask.pixels[k]>>
                = CanvasPixel((k - 1) % lump.data.size[1], (k - 1) \div lump.data.size[1])

(* A decoded patch with leftoffset 1 whose pixel of column 0 and row 0,    *)
(* which is left of the canvas, is in the last pixel of the canvas         *)
C30_Witness ==
    /\ PatchDecoded
    /\ lump.leftoffset = 1 /\ lump.topoffset = 0
    /\ ColumnOf(0) = <<0, 1, 7, 255>>
    /\ lump.data.size = <<2, 2>>
    /\ lump.data.pixels[4] = 7 /\ lump.mask.pixels[4] = 255


-----------------------------------------------------------------------------
(* Claims about load_pic *)

(* The two headers of the lump, as they stand in the file *)
PicHeaderRead == lump.pos >= 0 /\ Len(filedata) >= lump.pos + 8
LargeW == S16(SubSeq(filedata, lump.pos + 1, lump.pos + 2))
LargeH == S16(SubSeq(filedata, lump.pos + 3, lump.pos + 4))
SmallW == 4 * filedata[lump.pos + 1]
SmallH == filedata[lump.pos + 2]

LargeTest == LargeW * LargeH + 8 = lump.size
SmallTest == SmallW * SmallH + 2 <= lump.size /\ lump.size <= SmallW * SmallH + 4

IsRotated(im) == "angle" \in DOMAIN im

(* C22: a call of load_pic on a lump whose header can be read decodes a    *)
(* large picture of w by h when w*h + 8 is the size of the lump; if not, a *)
(* small picture of 4*w4 by h when 4*w4*h + 2 <= size <= 4*w4*h + 4; if    *)
(* neither holds the lump stays unloaded. When both tests hold the large   *)
(* picture is decoded.                                                     *)
C22_PicFormat ==
    [][(wpc = "load_pic" /\ PicHeaderRead) =>
        /\ LargeTest =>
            /\ wpc' \in {"loaded", "ValueError"}
            /\ wpc' = "loaded" =>
                /\ lump'.contents = PIC
                /\ IsRotated(lump'.data)
                /\ lump'.data.size = <<LargeH, LargeW>>
                /\ lump'.data.pixels =
                       SubSeq(filedata, lump.pos + 9, lump.pos + 8 + LargeW * LargeH)
        /\ (~LargeTest /\ SmallTest) =>
            /\ wpc' \in {"loaded", "struct.error"}
            /\ wpc' = "loaded" =>
                /\ lump'.contents = PIC
                /\ ~IsRotated(lump'.data)
                /\ lump'.data.size = <<SmallW, SmallH>>
        /\ (~LargeTest /\ ~SmallTest) =>
            /\ wpc' = "load_raw"
            /\ lump'.contents = UNLOADED
            /\ lump'.data = NotSet]_vars

(* Eight bytes that pass both tests were decoded as a large picture *)
C22_Witness ==
    /\ wpc = "loaded" /\ lump.contents = PIC
    /\ PicHeaderRead /\ LargeTest /\ SmallTest
    /\ IsRotated(lump.data)
    /\ lump.data.size = <<0, 257>>


(* load_pic has just decoded the lump as a small picture *)
SmallDecoded ==
    /\ wpc = "loaded" /\ lump.contents = PIC
    /\ ~IsRotated(lump.data)

(* The payload of the small picture, as it stands in the file *)
SmallPayload == SubSeq(filedata, lump.pos + 3, lump.pos + 2 + SmallW * SmallH)

Occurrences(s, v) == Cardinality({k \in 1..Len(s) : s[k] = v})

(* C23: in a decoded small picture of w by h, destination[pos*4 + phase]   *)
(* is source[phase*(w*h/4) + pos] for every phase in 0..3 and every pos in *)
(* 0..w*h/4 - 1, and the destination is a permutation of the w*h bytes of  *)
(* the source.                                                             *)
C23_Deinterleave ==
    SmallDecoded =>
        \A src \in {SmallPayload} : \A dst \in {lump.data.pixels} :
            /\ Len(dst) = SmallW * SmallH
            /\ Len(src) = SmallW * SmallH
            /\ \A phase \in 0..3 : \A pos \in 0..((SmallW * SmallH) \div 4 - 1) :
                dst[pos * 4 + phase + 1] = src[phase * ((SmallW * SmallH) \div 4) + pos + 1]
            /\ \A v \in 0..255 : Occurrences(dst, v) = Occurrences(src, v)

(* A small picture of 8 by 1 with the payload 1, 2, ..., 8 *)
C23_Witness ==
    /\ SmallDecoded
    /\ SmallW = 8 /\ SmallH = 1
    /\ SmallPayload = <<1, 2, 3, 4, 5, 6, 7, 8>>
    /\ lump.data.pixels = <<1, 3, 5, 7, 2, 4, 6, 8>>


-----------------------------------------------------------------------------
(* The other decode operations of Lump, wad.py:305-433 and 577-628. Each   *)
(* is given the file, the cursor cur0 it finds and the lump, and returns   *)
(* the exception raised (err), the lump and the cursor afterwards.         *)
(* Image.fromstring takes the pixels it needs from the start of the string *)
(* and raises ValueError when the string is shorter.                       *)

WallSize == 4096
WallSide == 64
FloorCeilSize == 8
SkyWidth == 256
SkyHeight == 200
NormFontSize == 2
CFontSize == 4
FontChars == 256
LbmSize == 4
PaletteSize == 768

StrSDOOR4A == <<83, 68, 79, 79, 82, 52, 65>>
StrIFNT == <<73, 70, 78, 84>>
StrITNYFONT == <<73, 84, 78, 89, 70, 79, 78, 84>>
StrSIFONT == <<83, 73, 70, 79, 78, 84>>
StrLIFONT == <<76, 73, 70, 79, 78, 84>>
CFontNames == {StrIFNT, StrITNYFONT, StrSIFONT, StrLIFONT}

(* struct.unpack of 'b': a signed byte *)
S8(b) == IF b >= 128 THEN b - 256 ELSE b

(* ImageOps.mirror(im) *)
mirror(im) ==
    [mode |-> im.mode, size |-> im.size, pixels |-> im.pixels, angle |-> im.angle,
     mirrored |-> TRUE]

(* im.putpalette(paldata) *)
putpalette(im, paldata) ==
    [mode |-> im.mode, size |-> im.size, pixels |-> im.pixels, palette |-> paldata]

(* The list of the characters of a font *)
FontData(chars) == [chars |-> chars]

(* wad.py:305-307 *)
is_wall(l) == l.size = WallSize /\ l.name # StrSDOOR4A

(* wad.py:309-320 *)
load_wall(file, cur0, l0) ==
    LET pos == seek(cur0, l0.pos)
        bytes == ReadSize(file, pos, l0.size)
    IN  IF ~is_wall(l0) THEN [err |-> "", lump |-> l0, cur |-> cur0]
        ELSE IF pos < 0 THEN [err |-> "IOError", lump |-> l0, cur |-> cur0]
        ELSE IF Len(bytes) < WallSide * WallSide
        THEN [err |-> "ValueError", lump |-> l0, cur |-> pos + Len(bytes)]
        ELSE [err |-> "",
              lump |-> [l0 EXCEPT
                  !.data = mirror(rotate(Image("P", <<WallSide, WallSide>>,
                                  SubSeq(bytes, 1, WallSide * WallSide)), -90)),
                  !.contents = WALL],
              cur |-> pos + Len(bytes)]

(* wad.py:330-340 *)
load_floorceil(file, cur0, l0) ==
    LET pos == seek(cur0, l0.pos)
        hdr == Read(file, pos, FloorCeilSize)
        fwidth == S16(SubSeq(hdr, 1, 2))
        fheight == S16(SubSeq(hdr, 3, 4))
        l1 == [l0 EXCEPT !.orgx = S16(SubSeq(hdr, 5, 6)),
                         !.orgy = S16(SubSeq(hdr, 7, 8))]
        body == ReadSize(file, pos + FloorCeilSize, l0.size - FloorCeilSize)
    IN  IF pos < 0 THEN [err |-> "IOError", lump |-> l0, cur |-> cur0]
        ELSE IF Len(hdr) < FloorCeilSize
        THEN [err |-> "struct.error", lump |-> l0, cur |-> pos + Len(hdr)]
        ELSE IF fwidth < 0 \/ fheight < 0 \/ Len(body) < fwidth * fheight
        THEN [err |-> "ValueError", lump |-> l1,
              cur |-> pos + FloorCeilSize + Len(body)]
        ELSE [err |-> "",
              lump |-> [l1 EXCEPT
                  !.data = Image("P", <<fwidth, fheight>>,
                                 SubSeq(body, 1, fwidth * fheight)),
                  !.contents = FLOORCEIL],
              cur |-> pos + FloorCeilSize + Len(body)]

(* wad.py:353-386, with the cursor at cur and cwidth > 0: the image, the   *)
(* mask and the cursor afterwards.  The format of struct.unpack is not     *)
(* valid for a negative count.                                             *)
load_col_first(file, cur, cwidth, cheight, maskcol) ==
    LET n == cwidth * cheight
        tempread == ReadSize(file, cur, n)
        source(k) == tempread[((k - 1) % cwidth) * cheight + ((k - 1) \div cwidth) + 1]
    IN  IF n < 0 \/ Len(tempread) < n
        THEN [err |-> "struct.error", img |-> None, mask |-> None,
              cur |-> cur + Len(tempread)]
        ELSE [err |-> "",
              img |-> Image("P", <<cwidth, cheight>>, [k \in 1..n |-> source(k)]),
              mask |-> Image("L", <<cwidth, cheight>>,
                             [k \in 1..n |-> IF source(k) # maskcol THEN 255 ELSE 0]),
              cur |-> cur + n]

(* wad.py:342-351 *)
load_sky(file, cur0, l0) ==
    LET pos == seek(cur0, l0.pos)
        r == load_col_first(file, pos, SkyWidth, SkyHeight, -1)
    IN  IF pos < 0 THEN [err |-> "IOError", lump |-> l0, cur |-> cur0]
        ELSE IF r.err # "" THEN [err |-> r.err, lump |-> l0, cur |-> r.cur]
        ELSE [err |-> "", lump |-> [l0 EXCEPT !.data = r.img, !.contents = SKY],
              cur |-> r.cur]

(* wad.py:429-432 for the character i of the font l, with the cursor at cur *)
FontChar(file, cur, l, i) ==
    LET at == seek(cur, l.pos + l.charoffs[i + 1])
    IN  IF at < 0 THEN [err |-> "IOError", img |-> None, mask |-> None, cur |-> cur]
        ELSE load_col_first(file, at, l.widths[i + 1], l.height, 0)

(* wad.py:407-433. Every character is read after a seek of its own; the    *)
(* characters before the first one that fails are in the lists.            *)
load_font(file, cur0, l0) ==
    LET pos == seek(cur0, l0.pos)
        coloured == l0.name \in CFontNames
        hsize == IF coloured THEN CFontSize ELSE NormFontSize
        hdr == Read(file, pos, hsize)
        l1 == IF coloured
              THEN [l0 EXCEPT !.colour = S16(SubSeq(hdr, 1, 2)),
                              !.height = S16(SubSeq(hdr, 3, 4))]
              ELSE [l0 EXCEPT !.height = S16(hdr)]
        wb == Read(file, pos + hsize, FontChars)
        l2 == [l1 EXCEPT !.widths = [k \in 1..FontChars |-> S8(wb[k])]]
        cb == Read(file, pos + hsize + FontChars, 2 * FontChars)
        l3 == [l2 EXCEPT !.charoffs =
                  [k \in 1..FontChars |-> S16(SubSeq(cb, 2 * k - 1, 2 * k))]]
        pb == IF coloured THEN Read(file, pos + hsize + 3 * FontChars, PaletteSize)
              ELSE <<>>
        l4 == IF coloured THEN [l3 EXCEPT !.paldata = pb] ELSE l3
        hdrend == pos + hsize + 3 * FontChars + Len(pb)
        drawn == {i \in 0..(FontChars - 1) : l4.widths[i + 1] > 0}
        res == [i \in drawn |-> FontChar(file, hdrend, l4, i)]
        failed == {i \in drawn : res[i].err # ""}
        stop == IF failed = {} THEN FontChars
                ELSE CHOOSE i \in failed : \A j \in failed : i <= j
        loaded == {i \in drawn : i < stop}
        l5 == [l4 EXCEPT
                  !.data = FontData([k \in 1..FontChars |->
                              IF k - 1 \in loaded THEN res[k - 1].img ELSE None]),
                  !.mask = FontData([k \in 1..FontChars |->
                              IF k - 1 \in loaded THEN res[k - 1].mask ELSE None])]
        last == IF loaded = {} THEN hdrend
                ELSE res[CHOOSE i \in loaded : \A j \in loaded : j <= i].cur
    IN  IF pos < 0 THEN [err |-> "IOError", lump |-> l0, cur |-> cur0]
        ELSE IF Len(hdr) < hsize
        THEN [err |-> "struct.error", lump |-> l0, cur |-> pos + Len(hdr)]
        ELSE IF Len(wb) < FontChars
        THEN [err |-> "struct.error", lump |-> l1, cur |-> pos + hsize + Len(wb)]
        ELSE IF Len(cb) < 2 * FontChars
        THEN [err |-> "struct.error", lump |-> l2,
              cur |-> pos + hsize + FontChars + Len(cb)]
        ELSE IF failed # {}
        THEN [err |-> res[stop].err, lump |-> l5, cur |-> res[stop].cur]
        ELSE [err |-> "", lump |-> [l5 EXCEPT !.contents = FONT], cur |-> last]

(* wad.py:618: (headerbyte-1 ^ 0xFF) + 1 for a headerbyte of 0x81..0xFF *)
RepeatCount(headerbyte) == (255 - (headerbyte - 1)) + 1

(* wad.py:605-622: the loop, with index idx, position pos and area =       *)
(* width * height. An index beyond tempread or tempdata raises IndexError. *)
RECURSIVE PackBits(_, _, _, _, _)
PackBits(tempdata, tempread, idx, pos, area) ==
    IF ~(pos < Len(tempread) /\ idx < area)
    THEN [err |-> "", tempdata |-> tempdata]
    ELSE LET headerbyte == tempread[pos + 1]
             next == pos + 1
         IN  IF headerbyte < 128
             THEN IF \E dataoffs \in 0..headerbyte :
                        \/ next + dataoffs >= Len(tempread)
                        \/ idx + dataoffs >= Len(tempdata)
                  THEN [err |-> "IndexError", tempdata |-> tempdata]
                  ELSE PackBits(
                          [k \in 1..Len(tempdata) |->
                              IF k - 1 >= idx /\ k - 1 <= idx + headerbyte
                              THEN tempread[next + (k - 1 - idx) + 1]
                              ELSE tempdata[k]],
                          tempread, idx + headerbyte + 1, next + headerbyte + 1, area)
             ELSE IF headerbyte > 128 /\ headerbyte <= 255
             THEN IF \/ next >= Len(tempread)
                     \/ idx + RepeatCount(headerbyte) - 1 >= Len(tempdata)
                  THEN [err |-> "IndexError", tempdata |-> tempdata]
                  ELSE PackBits(
                          [k \in 1..Len(tempdata) |->
                              IF k - 1 >= idx /\ k - 1 < idx + RepeatCount(headerbyte)
                              THEN tempread[next + 1] ELSE tempdata[k]],
                          tempread, idx + RepeatCount(headerbyte), next + 1, area)
             ELSE PackBits(tempdata, tempread, idx, next, area)

(* wad.py:586-628 *)
load_lbm(file, cur0, l0) ==
    LET pos == seek(cur0, l0.pos)
        hdr == Read(file, pos, LbmSize)
        lwidth == S16(SubSeq(hdr, 1, 2))
        lheight == S16(SubSeq(hdr, 3, 4))
        paldata == Read(file, pos + LbmSize, PaletteSize)
        told == pos + LbmSize + Len(paldata)
        datasize == l0.size - (told - pos)
        tempread == ReadSize(file, told, datasize)
        r == PackBits(Zeros(max(lwidth * lheight, 0)), tempread, 0, 0,
                      lwidth * lheight)
    IN  IF pos < 0 THEN [err |-> "IOError", lump |-> l0, cur |-> cur0]
        ELSE IF Len(hdr) < LbmSize
        THEN [err |-> "struct.error", lump |-> l0, cur |-> pos + Len(hdr)]
        ELSE IF datasize < 0 \/ Len(tempread) < datasize
        THEN [err |-> "struct.error", lump |-> l0, cur |-> told + Len(tempread)]
        ELSE IF r.err # ""
        THEN [err |-> r.err, lump |-> l0, cur |-> told + datasize]
        ELSE IF lwidth < 0 \/ lheight < 0
        THEN [err |-> "ValueError", lump |-> l0, cur |-> told + datasize]
        ELSE [err |-> "",
              lump |-> [l0 EXCEPT
                  !.data = putpalette(Image("P", <<lwidth, lheight>>, r.tempdata),
                                      paldata),
                  !.contents = LBM],
              cur |-> told + datasize]

-----------------------------------------------------------------------------
(* SpecLumps: the decode operations called one after another, each on a    *)
(* lump of its kind, in any order, on a file whose cursor is anywhere; db  *)
(* holds the lumps with the operation that is called on each, and dec the  *)
(* byte range of a level layer in the same file.  An exception other than  *)
(* those load_patch swallows ends the run.                                 *)

MaxStream == 3

(* The lumps that lie one after another in the file from LumpPos on *)
Entries(parts, calls, names) ==
    [k \in 1..Len(parts) |->
        [call |-> calls[k], done |-> FALSE,
         lump |-> NewLump(k, Offsets(parts, LumpPos)[k], Len(parts[k]), names[k])]]

WallBytes == [k \in 1..WallSize |-> k % 251]
FloorBytes == SLE16(2) \o SLE16(2) \o SLE16(1) \o SLE16(0) \o <<1, 2, 3, 4>>
SkyBytes == [k \in 1..(SkyWidth * SkyHeight) |-> k % 251]

(* A font of height 2 whose characters 65 and 66 are 1 and 2 wide; pal is *)
(* the palette of a colour font                                            *)
FontBytes(hdr, pal) ==
    hdr \o [k \in 1..FontChars |-> IF k = 66 THEN 1 ELSE IF k = 67 THEN 2 ELSE 0]
        \o [k \in 1..(2 * FontChars) |->
                IF k = 131 THEN (Len(hdr) + 3 * FontChars + Len(pal)) % 256
                ELSE IF k = 133 THEN (Len(hdr) + 3 * FontChars + Len(pal) + 2) % 256
                ELSE IF k \in {132, 134} THEN (Len(hdr) + 3 * FontChars + Len(pal)) \div 256
                ELSE 0]
        \o pal \o <<1, 0, 3, 4, 0, 6>>

PaletteBytes == [k \in 1..PaletteSize |-> k % 256]
LbmOf(w, h, stream) == SLE16(w) \o SLE16(h) \o PaletteBytes \o stream
BadPatch == PatchBytes(MaxPatchSize + 1, 2, 2, 0, 0, <<>>, BaseColumns)
BlockBytes == <<5, 0, 205, 171, 3, 0, 7, 0, 9, 0>>

(* The control and data bytes of a stream: literals of 1, 2 and 8 bytes,   *)
(* repeats of 2 and 3, and the byte that does nothing                      *)
StreamBytes == {0, 1, 7, 128, 254, 255}

MixedParts ==
    <<WallBytes, FloorBytes, FontBytes(SLE16(2), <<>>), SmallPicOf(2, 1), BasePatch,
      BadPatch, LbmOf(2, 1, <<255, 7>>), ThreeBytes>>
MixedCalls ==
    <<"load_wall", "load_floorceil", "load_font", "load_pic", "load_patch",
      "load_patch", "load_lbm", "load_raw">>

(* A file with a lump of every kind but a sky and the layer of a level; a  *)
(* file with a sky and a colour font; files with an LBM of every stream;   *)
(* and an LBM whose directory entry is too short or whose file ends early  *)
LumpsInputs ==
    {[file |-> Before \o Flatten(MixedParts) \o BlockBytes,
      db |-> Entries(MixedParts, MixedCalls, [k \in 1..Len(MixedParts) |-> <<65>>]),
      dec |-> [offset |-> LumpPos + Len(Flatten(MixedParts)),
               length |-> Len(BlockBytes), RLEWtag |-> TagA]]}
    \cup {[file |-> Before \o SkyBytes \o FontBytes(SLE16(1) \o SLE16(2), PaletteBytes),
           db |-> Entries(<<SkyBytes, FontBytes(SLE16(1) \o SLE16(2), PaletteBytes)>>,
                          <<"load_sky", "load_font">>, <<<<65>>, StrIFNT>>),
           dec |-> <<>>]}
    \cup {[file |-> Before \o LbmOf(d[1], d[2], stream) \o After,
           db |-> Entries(<<LbmOf(d[1], d[2], stream)>>, <<"load_lbm">>, <<<<65>>>>),
           dec |-> <<>>] :
            d \in {<<1, 1>>, <<2, 1>>, <<3, 1>>, <<2, 2>>},
            stream \in SeqsUpTo(StreamBytes, MaxStream)}
    \cup {[file |-> SubSeq(Before \o LbmOf(2, 1, <<255, 7>>), 1, cut),
           db |-> [k \in 1..1 |->
                    [call |-> "load_lbm", done |-> FALSE,
                     lump |-> NewLump(1, LumpPos, size, <<65>>)]],
           dec |-> <<>>] :
            cut \in {LumpPos + 2, LumpPos + LbmSize + 1,
                     LumpPos + LbmSize + PaletteSize + 1,
                     LumpPos + LbmSize + PaletteSize + 2},
            size \in {LbmSize + PaletteSize - 1, LbmSize + PaletteSize + 2}}

InitLumps ==
    /\ \E i \in LumpsInputs :
        /\ filedata = i.file
        /\ db = i.db
        /\ dec = i.dec
    /\ fpos \in {0, LumpPos + 1, Len(filedata)}
    /\ wpc = "calls"
    /\ lump = <<>>
    /\ wadid = <<>> /\ numlumps = 0 /\ lumpnum = 0 /\ block = <<>>
    /\ data = <<>> /\ palette = <<>>
    /\ noprocess = FALSE
    /\ slot = 0 /\ levels = <<>> /\ hdrpos = <<>> /\ rpc = "idle"
    /\ IdleLevel
    /\ mv = <<>>

(* Where the caller is after an operation that raised err *)
AfterOperation(err) == IF err # "" THEN err ELSE "calls"

(* The lumps of db on which the operation call is still to be called *)
Calls(call) == {i \in DOMAIN db : db[i].call = call /\ ~db[i].done}

(* The operation called on the lump i has returned r *)
Returned(i, r) ==
    /\ db' = [db EXCEPT ![i].lump = r.lump, ![i].done = TRUE]
    /\ fpos' = r.cur
    /\ wpc' = AfterOperation(r.err)
    /\ UNCHANGED <<filedata, dec>>

DecodeWall ==
    /\ wpc = "calls"
    /\ \E i \in Calls("load_wall") :
        \E r \in {load_wall(filedata, fpos, db[i].lump)} : Returned(i, r)

DecodeFloorCeil ==
    /\ wpc = "calls"
    /\ \E i \in Calls("load_floorceil") :
        \E r \in {load_floorceil(filedata, fpos, db[i].lump)} : Returned(i, r)

DecodeSky ==
    /\ wpc = "calls"
    /\ \E i \in Calls("load_sky") :
        \E r \in {load_sky(filedata, fpos, db[i].lump)} : Returned(i, r)

DecodeFont ==
    /\ wpc = "calls"
    /\ \E i \in Calls("load_font") :
        \E r \in {load_font(filedata, fpos, db[i].lump)} : Returned(i, r)

DecodePicture ==
    /\ wpc = "calls"
    /\ \E i \in Calls("load_pic") :
        \E r \in {load_pic(filedata, fpos, db[i].lump)} : Returned(i, r)

(* load_patch swallows the exception *)
DecodePatch ==
    /\ wpc = "calls"
    /\ \E i \in Calls("load_patch") :
        \E r \in {TryPatch(filedata, fpos, db[i].lump)} :
            Returned(i, [err |-> Except(r.err), lump |-> r.lump, cur |-> r.cur])

DecodeLbm ==
    /\ wpc = "calls"
    /\ \E i \in Calls("load_lbm") :
        \E r \in {load_lbm(filedata, fpos, db[i].lump)} : Returned(i, r)

DecodeRaw ==
    /\ wpc = "calls"
    /\ \E i \in Calls("load_raw") :
        \E r \in {load_raw(filedata, fpos, db[i].lump)} : Returned(i, r)

(* Level.decode_block on the byte range dec *)
DecodeLayer ==
    /\ wpc = "calls"
    /\ dec # <<>>
    /\ "result" \notin DOMAIN dec
    /\ \E r \in {decode_block(filedata, fpos, dec.offset, dec.length, dec.RLEWtag)} :
        /\ dec' = [offset |-> dec.offset, length |-> dec.length,
                   RLEWtag |-> dec.RLEWtag, result |-> r]
        /\ fpos' = r.pos
        /\ wpc' = AfterOperation(r.err)
    /\ UNCHANGED <<filedata, db>>

lumpsvars == <<wadid, numlumps, lumpnum, block, data, palette, lump,
               slot, levels, hdrpos, rpc, lvlvars, noprocess, mv>>

NextLumps ==
    \/ DecodeWall /\ UNCHANGED lumpsvars
    \/ DecodeFloorCeil /\ UNCHANGED lumpsvars
    \/ DecodeSky /\ UNCHANGED lumpsvars
    \/ DecodeFont /\ UNCHANGED lumpsvars
    \/ DecodePicture /\ UNCHANGED lumpsvars
    \/ DecodePatch /\ UNCHANGED lumpsvars
    \/ DecodeLbm /\ UNCHANGED lumpsvars
    \/ DecodeRaw /\ UNCHANGED lumpsvars
    \/ DecodeLayer /\ UNCHANGED lumpsvars

SpecLumps == InitLumps /\ [][NextLumps]_vars

(* What the operation call leaves of the lump l, and the exception it     *)
(* raises, when it finds the cursor at cur                                 *)
Operation(call, file, cur, l) ==
    CASE call = "load_wall" -> load_wall(file, cur, l)
      [] call = "load_floorceil" -> load_floorceil(file, cur, l)
      [] call = "load_sky" -> load_sky(file, cur, l)
      [] call = "load_font" -> load_font(file, cur, l)
      [] call = "load_pic" -> load_pic(file, cur, l)
      [] call = "load_patch" ->
            [err |-> Except(TryPatch(file, cur, l).err),
             lump |-> TryPatch(file, cur, l).lump]
      [] call = "load_lbm" -> load_lbm(file, cur, l)
      [] call = "load_raw" -> load_raw(file, cur, l)

(* An operation has just been called on the lump i of db *)
Called(i) == ~db[i].done /\ db'[i].done

(* C25: every decode operation seeks to an absolute offset before its      *)
(* first read, so what it yields (the lump it leaves, and the exception it *)
(* raises if any) is what it yields with the cursor at the start of the    *)
(* file, whatever operations came before; and so are the words of a layer. *)
C25_AbsoluteSeek ==
    [][/\ \A i \in DOMAIN db :
            Called(i) =>
                \A r \in {Operation(db[i].call, filedata, 0, db[i].lump)} :
                    /\ db'[i].lump = r.lump
                    /\ wpc' = AfterOperation(r.err)
       /\ (dec # <<>> /\ "result" \notin DOMAIN dec /\ "result" \in DOMAIN dec') =>
            \A r \in {decode_block(filedata, 0, dec.offset, dec.length, dec.RLEWtag)} :
                /\ dec'.result.out = r.out
                /\ dec'.result.err = r.err]_vars

(* Every lump of the mixed file is decoded and so is the layer, the raw    *)
(* lump last, after a patch attempt that failed                            *)
C25_Witness ==
    /\ Len(db) = Len(MixedParts)
    /\ \A i \in DOMAIN db : db[i].done
    /\ db[1].lump.contents = WALL
    /\ db[2].lump.contents = FLOORCEIL
    /\ db[3].lump.contents = FONT
    /\ db[4].lump.contents = PIC
    /\ db[5].lump.contents = PATCH
    /\ db[6].lump.contents = UNLOADED
    /\ db[7].lump.contents = LBM
    /\ db[8].lump.contents = RAW
    /\ db[8].lump.data = RawData(ThreeBytes)
    /\ fpos = db[8].lump.pos + Len(ThreeBytes)
    /\ "result" \in DOMAIN dec
    /\ dec.result.out = <<5, 7, 7, 7, 9>>

(* A PackBits decoder that ends a group where the output or the input ends *)
RECURSIVE ClippedPackBits(_, _, _, _, _)
ClippedPackBits(tempdata, tempread, idx, pos, area) ==
    IF ~(pos < Len(tempread) /\ idx < area) THEN tempdata
    ELSE LET c == tempread[pos + 1]
             count == IF c < 128 THEN c + 1 ELSE IF c > 128 THEN 256 - c + 1 ELSE 0
             from(k) == IF c < 128 THEN pos + 1 + (k - 1 - idx) ELSE pos + 1
         IN  ClippedPackBits(
                 [k \in 1..Len(tempdata) |->
                     IF k - 1 >= idx /\ k - 1 < idx + count /\ from(k) < Len(tempread)
                     THEN tempread[from(k) + 1] ELSE tempdata[k]],
                 tempread, idx + count,
                 IF c < 128 THEN pos + 1 + count
                 ELSE IF c > 128 THEN pos + 2 ELSE pos + 1,
                 area)

(* The width, the height and the stream of the LBM lump l, as they stand   *)
(* in the file                                                             *)
LbmW(l) == S16(SubSeq(filedata, l.pos + 1, l.pos + 2))
LbmH(l) == S16(SubSeq(filedata, l.pos + 3, l.pos + 4))
LbmStream(l) == SubSeq(filedata, l.pos + LbmSize + PaletteSize + 1, l.pos + l.size)

(* The header, the palette and the stream of the lump l are in the file *)
LbmInFile(l) ==
    /\ l.pos >= 0
    /\ l.size >= LbmSize + PaletteSize
    /\ l.pos + l.size <= Len(filedata)
    /\ LbmW(l) >= 0 /\ LbmH(l) >= 0

(* C24: once load_lbm has been called on a lump whose header, palette and  *)
(* stream are in the file, the lump is an LBM whose buffer has w*h bytes:  *)
(* those of the groups of the stream taken in order (c < 0x80: the next    *)
(* c+1 bytes, c > 0x80: the next byte 256-c+1 times, 0x80: nothing), ended *)
(* where w*h bytes are produced or the input is exhausted, no error being  *)
(* raised when a group runs past either.                                   *)
C24_PackBits ==
    \A i \in DOMAIN db :
        (db[i].call = "load_lbm" /\ db[i].done /\ LbmInFile(db[i].lump)) =>
            /\ db[i].lump.contents = LBM
            /\ Len(db[i].lump.data.pixels) = LbmW(db[i].lump) * LbmH(db[i].lump)
            /\ db[i].lump.data.pixels =
                  ClippedPackBits(Zeros(LbmW(db[i].lump) * LbmH(db[i].lump)),
                                  LbmStream(db[i].lump), 0, 0,
                                  LbmW(db[i].lump) * LbmH(db[i].lump))

(* load_lbm has raised IndexError on an image of 1 by 1 whose stream is a  *)
(* repeat of two bytes                                                     *)
C24_Witness ==
    /\ wpc = "IndexError"
    /\ Len(db) = 1 /\ db[1].call = "load_lbm" /\ db[1].done
    /\ LbmInFile(db[1].lump)
    /\ LbmW(db[1].lump) = 1 /\ LbmH(db[1].lump) = 1
    /\ LbmStream(db[1].lump) = <<255, 7>>
    /\ db[1].lump.contents = UNLOADED
=============================================================================
